---- MODULE Spec2Model ----
(***************************************************************************)
(* Model of the bingo round engine of the repository: the claim            *)
(* coordinator (workers.py ClaimProcessor, called from main.py claim_win), *)
(* the lease lock it uses (redis_client.py), the round scheduler           *)
(* (workers.py RoundWorker), the purchase and payment endpoints (main.py   *)
(* buy_card, payment_webhook) and the websocket relay (websocket.py).      *)
(*                                                                         *)
(* The store is one committed database shared by every process.  A step    *)
(* of the model is one round trip of one process to the store, to the lock *)
(* server or to the event channel; the Python code between two round trips *)
(* runs inside the step that precedes it.  Every request and every poll    *)
(* has its own SQLAlchemy session (database.py SessionLocal): what a       *)
(* session has loaded is a private copy of the row, and its writes reach   *)
(* the store in one commit.                                                *)
(*                                                                         *)
(* Amounts are integer cents and the commission rates are percentages.     *)
(* workers.py line 204 spells the setting JACKPOT_COMMISSION with a stray  *)
(* U+200B character; the model reads it as settings.JACKPOT_COMMISSION.    *)
(***************************************************************************)
EXTENDS Integers, Sequences, FiniteSets, TLC

(* ------------------------------------------------------------------ *)
(* Program constants                                                   *)
(* ------------------------------------------------------------------ *)
NumBalls == 75
RowLen == 5
JackpotCalls == 40
HOUSE_COMMISSION == 20
WINNER_COMMISSION == 70
JACKPOT_COMMISSION == 10
\* config.py line 39, in seconds
NUMBER_CALL_INTERVAL == 5
\* workers.py line 35, in seconds
POLL_SLEEP == 1

(* ------------------------------------------------------------------ *)
(* Bounds of the model                                                 *)
(* ------------------------------------------------------------------ *)
\* number of claim requests (each is one call of claim_win)
NumAttempts == 2
\* number of calls of _call_number in one behaviour beside a claim request
MaxCalls == 1
\* the number source draws among the MaxDraw smallest available numbers
MaxDraw == 2
\* number of cards sold for a round whose payout is computed on its own
MaxCards == 4
\* number of processes that run a poll loop side by side
NumPollers == 2
\* number of calls of _call_number in one behaviour of the poll loops alone
MaxPollCalls == 3

\* number of websocket connections accepted in one behaviour
MaxSockets == 2
\* number of messages published on the room channels beside the relay
MaxMessages == 2
\* number of client messages received in one behaviour
MaxClientMessages == 1
\* number of buy_card requests in one behaviour
MaxBuys == 2
\* the seconds of wall clock time a behaviour is followed through
MaxTime == 7
\* number of calls of start() on a RoundWorker after the one of the startup
MaxStarts == 1
\* number of deposits the payment provider reports in one behaviour
MaxDeposits == 1

Attempts == 1..NumAttempts
Buys == 1..MaxBuys
Sockets == 1..MaxSockets
UserIds == {1, 2}
\* one poll loop (RoundWorker._round_loop)
Schedulers == {1}

\* What a claim request may name, <<round_id, card_id, user_id>>: each user's own
\* card against round 1, the card of the other user, a card id of no card, and
\* round id 2 (of no round until a successor round is created).
Requests == {<<1, 1, 1>>, <<1, 2, 2>>, <<1, 2, 1>>, <<1, 3, 1>>, <<2, 1, 1>>}
LockKeys == {q[1] : q \in Requests}

VARIABLES
    rounds,          \* table rounds: sequence of rows, the id is the index
    cards,           \* table cards: card id -> row
    users,           \* table users: user id -> wallet_balance
    transactions,    \* table transactions, in commit order
    called_numbers,  \* table called_numbers, in commit order
    locks,           \* the lock server: key -> 0 (absent) or the request that set it
    events,          \* the messages published on the event channel, in order
    att,             \* the claim requests: position, arguments, session copies
    sched,           \* the poll loops: position, rounds to process, session copies
    calls,           \* number of calls of _call_number the behaviour may still make
    probe,           \* a function of the program called on its own: arguments, result
    running,         \* RoundWorker.running of the worker of each process
    buys,            \* the buy_card requests: position, arguments, session copies
    active_connections,  \* ConnectionManager: room id -> set of sockets
    user_connections,    \* ConnectionManager: user id -> socket
    sockets,         \* the websocket connections: handle_connection's position, the client
    listeners,       \* the _redis_listener task of each connection
    clock            \* the wall clock, and the times read from it into the store

vars == <<rounds, cards, users, transactions, called_numbers, locks, events, att, sched, calls,
          probe, running, buys, active_connections, user_connections, sockets, listeners,
          clock>>

store == <<rounds, cards, users, transactions, called_numbers>>

relay == <<active_connections, user_connections, sockets, listeners>>

(* ------------------------------------------------------------------ *)
(* Rows                                                                *)
(* ------------------------------------------------------------------ *)
\* A Round row.  winner_id 0 is NULL.  A time is 0 for NULL, or names the commit
\* that wrote utcnow() into it: a claim request p, Stamp(s) for a poll loop s,
\* InitStamp for what was written before the behaviour starts.
InitStamp == NumAttempts + 1

Round(room, st, created_at) ==
    [room_id |-> room, status |-> st, total_pool |-> 0, jackpot_pool |-> 0,
     winner_id |-> 0, winner_amount |-> 0, numbers_called |-> <<>>,
     start_time |-> 0, end_time |-> 0, created_at |-> created_at]

Card(rid, uid, nums) ==
    [round_id |-> rid, user_id |-> uid, numbers |-> nums, claimed |-> FALSE]

\* `by` stands for the row's id and timestamp: it names the commit that inserted it
Transaction(uid, amt, ty, by) == [user_id |-> uid, amount |-> amt, type |-> ty, by |-> by]

CalledNumber(rid, n) == [round_id |-> rid, number |-> n]

Range(s) == {s[i] : i \in DOMAIN s}

\* [a, a+1, ..., b]
Run(a, b) == [i \in 1..(b - a + 1) |-> a + i - 1]

(* ------------------------------------------------------------------ *)
(* _verify_win                                                         *)
(* ------------------------------------------------------------------ *)
Marked(row, called_set) == Cardinality({i \in DOMAIN row : row[i] \in called_set})

RECURSIVE VerifyFrom(_, _, _)
VerifyFrom(card_numbers, called_set, k) ==
    IF k > Len(card_numbers) THEN [win |-> FALSE, line |-> <<>>]
    ELSE IF Marked(card_numbers[k], called_set) = RowLen
         THEN [win |-> TRUE, line |-> card_numbers[k]]
         ELSE VerifyFrom(card_numbers, called_set, k + 1)

\* _verify_win with a row counted as full from 4 marked numbers on
verify_win_four(card_numbers, called_numbers_) ==
    LET near == {k \in DOMAIN card_numbers :
                     Marked(card_numbers[k], Range(called_numbers_)) >= RowLen - 1}
    IN IF near = {} THEN [win |-> FALSE, line |-> <<>>]
       ELSE [win |-> TRUE, line |-> card_numbers[CHOOSE k \in near : \A j \in near : k <= j]]

verify_win(card_numbers, called_numbers_) ==
    VerifyFrom(card_numbers, Range(called_numbers_), 1)

(* ------------------------------------------------------------------ *)
(* list(set(numbers)) as CPython computes it (Objects/setobject.c):    *)
(* open addressing, hash(n) = n, linear probes then perturbation.      *)
(* ------------------------------------------------------------------ *)
PySet_MINSIZE == 8
LINEAR_PROBES == 9
PERTURB_SHIFT == 5

SetMin(S) == CHOOSE x \in S : \A y \in S : x <= y

\* set_add_entry / set_insert_clean: the slot where key is, or where it goes
RECURSIVE SetSlot(_, _, _, _, _)
SetSlot(table, mask, key, i, perturb) ==
    LET probes == IF i + LINEAR_PROBES <= mask THEN LINEAR_PROBES ELSE 0
        hit == {j \in i..(i + probes) : table[j] = 0 \/ table[j] = key}
        shifted == perturb \div (2 ^ PERTURB_SHIFT)
    IN IF hit # {} THEN SetMin(hit)
       ELSE SetSlot(table, mask, key, (i * 5 + 1 + shifted) % (mask + 1), shifted)

EmptyTable(size) == [j \in 0..(size - 1) |-> 0]

RECURSIVE TableSize(_, _)
TableSize(newsize, minused) ==
    IF newsize <= minused THEN TableSize(newsize * 2, minused) ELSE newsize

Used(table) == Cardinality({j \in DOMAIN table : table[j] # 0})

\* iteration over a set: the entries in slot order
TableList(table) ==
    LET occupied == {j \in DOMAIN table : table[j] # 0}
    IN [k \in 1..Cardinality(occupied) |->
          table[CHOOSE j \in occupied : Cardinality({i \in occupied : i < j}) = k - 1]]

\* set_table_resize: the entries go into the new table in the order of the old slots
RECURSIVE Reinsert(_, _, _)
Reinsert(entries, k, size) ==
    IF k = 0 THEN EmptyTable(size)
    ELSE LET new == Reinsert(entries, k - 1, size)
             slot == SetSlot(new, size - 1, entries[k], entries[k] % size, entries[k])
         IN [new EXCEPT ![slot] = entries[k]]

SetAdd(table, key) ==
    LET mask == Cardinality(DOMAIN table) - 1
        slot == SetSlot(table, mask, key, key % (mask + 1), key)
        added == [table EXCEPT ![slot] = key]
    IN IF table[slot] = key THEN table
       ELSE IF Used(added) * 5 < mask * 3 THEN added
       ELSE Reinsert(TableList(added), Used(added),
                     TableSize(PySet_MINSIZE, Used(added) * 4))

\* set(s): the keys are added in list order (set_update_internal)
RECURSIVE PySetOf(_, _)
PySetOf(s, k) ==
    IF k = 0 THEN EmptyTable(PySet_MINSIZE)
    ELSE LET so == PySetOf(s, k - 1)
         IN IF \E j \in DOMAIN so : so[j] = s[k] THEN so ELSE SetAdd(so, s[k])

\* the number of slots of a set that has come to hold d keys, added one by one
\* to a table of `size` slots: a table is resized by the key that fills 3/5 of it
RECURSIVE SlotsFrom(_, _)
SlotsFrom(size, d) ==
    LET resized_at == ((size - 1) * 3 + 4) \div 5
    IN IF d < resized_at THEN size
       ELSE SlotsFrom(TableSize(PySet_MINSIZE, resized_at * 4), d)

Slots(d) == SlotsFrom(PySet_MINSIZE, d)

\* the numbers of a set in ascending order
Ascending(S) ==
    [k \in 1..Cardinality(S) |-> CHOOSE j \in S : Cardinality({i \in S : i < j}) = k - 1]

\* list(set(s)) for a list s of numbers of 1..75.  In a table of more than 75
\* slots no two of these numbers share a slot (slot = number), so the list is
\* in ascending order; a smaller table is built key by key.
ListOfSet(s) ==
    IF Slots(Cardinality(Range(s))) > NumBalls THEN Ascending(Range(s))
    ELSE TableList(PySetOf(s, Len(s)))

(* ------------------------------------------------------------------ *)
(* Initial store                                                       *)
(* ------------------------------------------------------------------ *)
\* Two cards were sold for round 1 of room 1 while it was waiting, one to each
\* user (main.py buy_card: 3 sorted rows of 5 distinct numbers of 1..75).
Card1Numbers == <<Run(1, 5), Run(6, 10), Run(11, 15)>>
Card2Numbers == <<Run(16, 20), Run(21, 25), Run(26, 30)>>
\* Room.card_price (default 1.0), in cents
CardPrice == 100
\* wallet_balance of a new user
InitBalance == 0

\* Called sequences round 1 may have reached when the behaviour starts:
\* 12 calls covering the first row of card 1 only;
CalledJackpot == Run(1, 5) \o <<16, 17, 18, 19, 21, 22, 23>>
\* 24 calls, 4 of the 5 numbers of every row of both cards;
CalledNear == Run(1, 4) \o Run(6, 9) \o Run(11, 14) \o Run(16, 19) \o Run(21, 24) \o Run(26, 29)
\* 41 calls covering rows of both cards;
CalledBoth == Run(1, 41)
\* one call short of the cutoff, and the cutoff.
CalledAlmostAll == Run(1, NumBalls - 1)
CalledAll == Run(1, NumBalls)

InitCalled == {CalledJackpot, CalledNear, CalledBoth}
InitCalledRace == {CalledNear, CalledAlmostAll, CalledAll}

InitRound(called) ==
    [Round(1, "active", InitStamp) EXCEPT !.total_pool = 2 * CardPrice,
                                          !.numbers_called = called,
                                          !.start_time = InitStamp]

InitCalledNumbers(called) == [i \in DOMAIN called |-> CalledNumber(1, called[i])]

NoAttempt ==
    [pc |-> "idle", round_id |-> 0, card_id |-> 0, user_id |-> 0,
     round |-> <<>>, card |-> <<>>, balance |-> 0,
     amount |-> 0, is_jackpot |-> FALSE, result |-> "none"]

\* A poll loop between two polls: no session, nothing loaded.
Asleep == [pc |-> "sleep", active |-> <<>>, waiting |-> <<>>, copy |-> <<>>,
           number |-> 0, new_id |-> 0]

\* no function is called on its own
NoProbe == [fn |-> "none", args |-> <<>>, ret |-> <<>>]

\* workers.py lines 18-22, main.py line 48: start() has set the flag of the
\* process of every poll loop
Started == running = [s \in DOMAIN sched |-> TRUE]

\* The wall clock is at 0.  What the store holds was written at 0; the poll
\* loops have not slept yet: start() has just created their tasks.
Midnight ==
    clock = [now |-> 0,
             called_at |-> [i \in DOMAIN called_numbers |-> 0],
             start_time |-> [id \in {i \in DOMAIN rounds : rounds[i].status # "waiting"} |-> 0],
             slept |-> [s \in DOMAIN sched |-> 0 - POLL_SLEEP]]

\* no purchase request and no websocket connection
Unused ==
    /\ buys = <<>>
    /\ active_connections = <<>>
    /\ user_connections = <<>>
    /\ sockets = <<>>
    /\ listeners = <<>>

InitWith(choices) ==
    \E called \in choices :
        /\ rounds = <<InitRound(called)>>
        /\ cards = (1 :> Card(1, 1, Card1Numbers)) @@ (2 :> Card(1, 2, Card2Numbers))
        /\ users = [u \in UserIds |-> InitBalance]
        /\ transactions = <<>>
        /\ called_numbers = InitCalledNumbers(called)
        /\ locks = [k \in LockKeys |-> 0]
        /\ events = <<>>
        /\ att = [p \in Attempts |-> NoAttempt]
        /\ sched = [s \in Schedulers |-> Asleep]
        /\ calls = MaxCalls
        /\ probe = NoProbe
        /\ Started
        /\ Unused
        /\ Midnight

Init == InitWith(InitCalled)

InitRace == InitWith(InitCalledRace)

(* ------------------------------------------------------------------ *)
(* The lease lock (redis_client.py)                                    *)
(* ------------------------------------------------------------------ *)
\* The key of the lock of a round, f"lock:claim:{round_id}", is named by the
\* round id.  The server stores the constant "locked" under the key, with a
\* lease of `timeout` seconds: the program neither stores nor reads who set the
\* key; the model keeps it to tell whose critical section a key covers.

LockKey(round_id) == round_id

\* SET key "locked" NX EX timeout: TRUE iff the key was absent
LockAcquired(key) == locks[key] = 0

\* DEL key
LockDeleted(key) == [locks EXCEPT ![key] = 0]

\* The server drops the key when its lease is over.  The lease is not timed: a
\* holder may take any time between two round trips, so the lease of a key that
\* is present may end at any step.
lease_expiry(key) ==
    /\ locks[key] # 0
    /\ locks' = [locks EXCEPT ![key] = 0]
    /\ UNCHANGED <<store, events, att, sched, calls, probe, running, buys, relay, clock>>

(* ------------------------------------------------------------------ *)
(* Claim requests: main.py claim_win -> workers.py process_claim       *)
(* ------------------------------------------------------------------ *)
Messages ==
    {"Claim is being processed", "Invalid round or card", "Round is not active",
     "Card already claimed", "No winning line yet"}

\* db.query(Round).filter(Round.id == round_id).first(): <<row>> or <<>> (None)
QueryRound(round_id) ==
    IF round_id \in DOMAIN rounds THEN <<rounds[round_id]>> ELSE <<>>

\* db.query(Card).filter(Card.id == card_id, Card.user_id == user_id).first()
QueryCard(card_id, user_id) ==
    IF card_id \in DOMAIN cards /\ cards[card_id].user_id = user_id
    THEN <<cards[card_id]>> ELSE <<>>

\* claim_win up to its call of process_claim: the request names a round, a card
\* and a user; the user row is loaded into the request's session, which keeps
\* the wallet_balance it read for the rest of the request.
claim_win(p, round_id, card_id, user_id) ==
    /\ att[p].pc = "idle"
    /\ (IF p = 1 THEN TRUE ELSE att[p - 1].pc # "idle")
    /\ att' = [att EXCEPT ![p] = [@ EXCEPT !.pc = "acquire",
                                           !.round_id = round_id,
                                           !.card_id = card_id,
                                           !.user_id = user_id,
                                           !.balance = users[user_id]]]
    /\ UNCHANGED <<store, locks, events, sched, calls, probe, running, buys, relay, clock>>

\* acquire_lock with its result ignored: the attempt goes on when the key is held
acquire_lock_unchecked(p) ==
    /\ att[p].pc = "acquire"
    /\ locks' = IF LockAcquired(LockKey(att[p].round_id))
                THEN [locks EXCEPT ![LockKey(att[p].round_id)] = p]
                ELSE locks
    /\ att' = [att EXCEPT ![p].pc = "query_round"]
    /\ UNCHANGED <<store, events, sched, calls, probe, running, buys, relay, clock>>

\* lines 168-172
acquire_lock(p) ==
    /\ att[p].pc = "acquire"
    /\ IF LockAcquired(LockKey(att[p].round_id))
       THEN /\ locks' = [locks EXCEPT ![LockKey(att[p].round_id)] = p]
            /\ att' = [att EXCEPT ![p].pc = "query_round"]
       ELSE /\ locks' = locks
            /\ att' = [att EXCEPT ![p].pc = "done",
                                  ![p].result = "Claim is being processed"]
    /\ UNCHANGED <<store, events, sched, calls, probe, running, buys, relay, clock>>

\* line 176
query_round(p) ==
    /\ att[p].pc = "query_round"
    /\ att' = [att EXCEPT ![p].pc = "query_card",
                          ![p].round = QueryRound(att[p].round_id)]
    /\ UNCHANGED <<store, locks, events, sched, calls, probe, running, buys, relay, clock>>

\* the checks of lines 179-195 with the claimed flag tested before the status
Rejection_claimed_first(round, card) ==
    IF round = <<>> \/ card = <<>> THEN "Invalid round or card"
    ELSE IF card[1].claimed THEN "Card already claimed"
    ELSE IF round[1].status # "active" THEN "Round is not active"
    ELSE IF ~verify_win(card[1].numbers, round[1].numbers_called).win
         THEN "No winning line yet"
    ELSE ""

\* lines 179-195 on the copies the session holds: the rejection, or "" when the
\* claim goes on to settlement
Rejection(round, card) ==
    IF round = <<>> \/ card = <<>> THEN "Invalid round or card"
    ELSE IF round[1].status # "active" THEN "Round is not active"
    ELSE IF card[1].claimed THEN "Card already claimed"
    ELSE IF ~verify_win(card[1].numbers, round[1].numbers_called).win
         THEN "No winning line yet"
    ELSE ""

\* line 198
IsJackpot(round) == Len(round.numbers_called) <= JackpotCalls

\* line 202, in cents
HouseCut(round) == (round.total_pool * HOUSE_COMMISSION) \div 100

\* lines 201-206 with the jackpot share paid on every win
WinnerAmount_jackpot_always(round) ==
    (round.total_pool * WINNER_COMMISSION) \div 100
    + (round.total_pool * JACKPOT_COMMISSION) \div 100

\* lines 201-206, in cents
WinnerAmount(round) ==
    LET total_pool == round.total_pool
        house_cut == HouseCut(round)
        winner_cut == (total_pool * WINNER_COMMISSION) \div 100
        jackpot_cut == (total_pool * JACKPOT_COMMISSION) \div 100
    IN winner_cut + (IF IsJackpot(round) THEN jackpot_cut ELSE 0)

\* lines 177-235 with the card marked claimed, and committed, before the win is
\* verified
query_card_claims_early(p) ==
    /\ att[p].pc = "query_card"
    /\ LET card == QueryCard(att[p].card_id, att[p].user_id)
           msg == Rejection(att[p].round, card)
       IN /\ att' = [att EXCEPT ![p] =
                       IF msg # ""
                       THEN [@ EXCEPT !.pc = "release", !.card = card, !.result = msg]
                       ELSE [@ EXCEPT !.pc = "commit", !.card = card,
                                      !.is_jackpot = IsJackpot(att[p].round[1]),
                                      !.amount = WinnerAmount(att[p].round[1])]]
          /\ cards' = IF msg = "No winning line yet"
                      THEN [cards EXCEPT ![att[p].card_id].claimed = TRUE]
                      ELSE cards
    /\ UNCHANGED <<rounds, users, transactions, called_numbers, locks, events, sched, calls, probe, running, buys, relay, clock>>

\* lines 177-235: the card query, then the checks and the pending changes of the
\* session (the user query of line 218 returns the row the session already holds)
query_card(p) ==
    /\ att[p].pc = "query_card"
    /\ LET card == QueryCard(att[p].card_id, att[p].user_id)
           msg == Rejection(att[p].round, card)
       IN att' = [att EXCEPT ![p] =
                    IF msg # ""
                    THEN [@ EXCEPT !.pc = "release", !.card = card, !.result = msg]
                    ELSE [@ EXCEPT !.pc = "commit", !.card = card,
                                   !.is_jackpot = IsJackpot(att[p].round[1]),
                                   !.amount = WinnerAmount(att[p].round[1])]]
    /\ UNCHANGED <<store, locks, events, sched, calls, probe, running, buys, relay, clock>>

\* line 237: the flush writes the changed columns of the loaded rows by primary
\* key and inserts the new rows, in one transaction
SettledRound(p, row) ==
    [row EXCEPT !.status = IF att[p].is_jackpot THEN "jackpot" ELSE "completed",
                !.winner_id = att[p].user_id,
                !.winner_amount = att[p].amount,
                !.end_time = p]

\* a settlement that commits the Round and its successor, and leaves the Card,
\* the balance and the ledger to a later commit
commit_round_only(p) ==
    /\ att[p].pc = "commit"
    /\ rounds' = Append([rounds EXCEPT ![att[p].round_id] = SettledRound(p, @)],
                        Round(att[p].round[1].room_id, "waiting", p))
    /\ att' = [att EXCEPT ![p].pc = "publish"]
    /\ UNCHANGED <<cards, users, transactions, called_numbers, locks, events, sched, calls, probe, running, buys, relay, clock>>

commit(p) ==
    /\ att[p].pc = "commit"
    /\ rounds' = Append([rounds EXCEPT ![att[p].round_id] = SettledRound(p, @)],
                        Round(att[p].round[1].room_id, "waiting", p))
    /\ cards' = [cards EXCEPT ![att[p].card_id].claimed = TRUE]
    /\ users' = [users EXCEPT ![att[p].user_id] = att[p].balance + att[p].amount]
    /\ transactions' = Append(transactions,
                              Transaction(att[p].user_id, att[p].amount,
                                          IF att[p].is_jackpot THEN "jackpot" ELSE "win", p))
    /\ att' = [att EXCEPT ![p].pc = "publish"]
    /\ UNCHANGED <<called_numbers, locks, events, sched, calls, probe, running, buys, relay, clock>>

\* the winner event with the whole pool as its amount
WinnerEvent_whole_pool(p) ==
    [type |-> "winner", round_id |-> att[p].round_id, winner_id |-> att[p].user_id,
     amount |-> att[p].round[1].total_pool, is_jackpot |-> att[p].is_jackpot,
     numbers_called |-> Len(rounds[att[p].round_id].numbers_called), by |-> p]

\* lines 240-247: the message, from the locals of the call and from the round
\* row, which the commit of line 237 has expired and which is loaded again
WinnerEvent(p) ==
    [type |-> "winner", round_id |-> att[p].round_id, winner_id |-> att[p].user_id,
     amount |-> att[p].amount, is_jackpot |-> att[p].is_jackpot,
     numbers_called |-> Len(rounds[att[p].round_id].numbers_called), by |-> p]

publish_winner(p) ==
    /\ att[p].pc = "publish"
    /\ events' = Append(events, WinnerEvent(p))
    /\ att' = [att EXCEPT ![p].pc = "release",
                          ![p].result = IF att[p].is_jackpot THEN "Jackpot!" ELSE "Winner!"]
    /\ UNCHANGED <<store, locks, sched, calls, probe, running, buys, relay, clock>>

\* a store error that leaves process_claim without running the finally block
store_error_no_finally(p) ==
    /\ att[p].pc \in {"query_round", "query_card", "commit"}
    /\ att' = [att EXCEPT ![p] = [@ EXCEPT !.pc = "done", !.round = <<>>, !.card = <<>>,
                                           !.balance = 0, !.result = "raised"]]
    /\ UNCHANGED <<store, locks, events, sched, calls, probe, running, buys, relay, clock>>

\* A store call of lines 176-237 raises: nothing of the session is committed
\* (the request's session is rolled back when it is closed), the finally block runs.
store_error(p) ==
    /\ att[p].pc \in {"query_round", "query_card", "commit"}
    /\ att' = [att EXCEPT ![p].pc = "release", ![p].result = "raised"]
    /\ UNCHANGED <<store, locks, events, sched, calls, probe, running, buys, relay, clock>>

\* The publish of line 240 raises: the finally block runs.
publish_error(p) ==
    /\ att[p].pc = "publish"
    /\ att' = [att EXCEPT ![p].pc = "release", ![p].result = "raised"]
    /\ UNCHANGED <<store, locks, events, sched, calls, probe, running, buys, relay, clock>>

\* lines 256-257
release_lock(p) ==
    /\ att[p].pc = "release"
    /\ locks' = LockDeleted(LockKey(att[p].round_id))
    /\ att' = [att EXCEPT ![p] = [@ EXCEPT !.pc = "done", !.round = <<>>,
                                           !.card = <<>>, !.balance = 0]]
    /\ UNCHANGED <<store, events, sched, calls, probe, running, buys, relay, clock>>

(* ------------------------------------------------------------------ *)
(* The round scheduler: workers.py RoundWorker                         *)
(* ------------------------------------------------------------------ *)
\* The session of a poll (sessionmaker defaults: expire_on_commit): a row it has
\* loaded stays as loaded until the session commits; a commit expires every
\* row, and the next read of an expired row loads it again from the store.
Stamp(s) == InitStamp + s

IdsWithStatus(st) == {id \in DOMAIN rounds : rounds[id].status = st}

Loaded(ids) == [id \in ids |-> rounds[id]]

\* the round row as the session of s sees it
View(s, id) == IF id \in DOMAIN sched[s].copy THEN sched[s].copy[id] ELSE rounds[id]

\* A process w has one RoundWorker (workers.py line 274), named w as well, and
\* its first poll loop is loop w; the loop task that the k-th later call of
\* start() on the worker creates is loop w + NumPollers * k.
Owner(s) == ((s - 1) % NumPollers) + 1

\* _round_loop polling whatever the flag says (while True in place of line 29)
poll_active_ignores_flag(s) ==
    /\ sched[s].pc = "sleep"
    /\ sched' = [sched EXCEPT ![s] = [@ EXCEPT !.pc = "process",
                                               !.active = Ascending(IdsWithStatus("active")),
                                               !.copy = Loaded(IdsWithStatus("active"))]]
    /\ UNCHANGED <<store, locks, events, att, calls, probe, running, buys, relay, clock>>

\* lines 29, 39-48: the flag is set, so a poll opens a session and loads the
\* active rounds
poll_active(s) ==
    /\ sched[s].pc = "sleep"
    /\ running[Owner(s)]
    /\ sched' = [sched EXCEPT ![s] = [@ EXCEPT !.pc = "process",
                                               !.active = Ascending(IdsWithStatus("active")),
                                               !.copy = Loaded(IdsWithStatus("active"))]]
    /\ UNCHANGED <<store, locks, events, att, calls, probe, running, buys, relay, clock>>

\* line 85
Available(numbers_called) == (1..NumBalls) \ Range(numbers_called)

\* line 91: SystemRandom().choice(available), among the MaxDraw smallest
Draws(available) == {n \in available : Cardinality({m \in available : m < n}) < MaxDraw}

\* lines 69-71: the latest CalledNumber row of the round, if any
HasLastCall(id) == \E i \in DOMAIN called_numbers : called_numbers[i].round_id = id

\* _process_round with the cutoff one call late (> in place of >= at line 64)
process_round_late_cutoff(s) ==
    /\ sched[s].pc = "process"
    /\ sched[s].active # <<>>
    /\ LET id == Head(sched[s].active)
           round == View(s, id)
           held == [sched[s] EXCEPT !.copy = (id :> round) @@ @]
       IN \/ /\ Len(round.numbers_called) > NumBalls
             /\ sched' = [sched EXCEPT ![s] = [held EXCEPT !.pc = "end_commit"]]
             /\ calls' = calls
          \/ /\ Len(round.numbers_called) <= NumBalls
             /\ HasLastCall(id) \/ Available(round.numbers_called) = {} \/ calls = 0
             /\ sched' = [sched EXCEPT ![s] = [held EXCEPT !.active = Tail(@)]]
             /\ calls' = calls
          \/ /\ Len(round.numbers_called) <= NumBalls
             /\ calls > 0
             /\ \E number \in Draws(Available(round.numbers_called)) :
                    sched' = [sched EXCEPT ![s] = [held EXCEPT !.pc = "call_commit",
                                                               !.number = number]]
             /\ calls' = calls - 1
    /\ UNCHANGED <<store, locks, events, att, probe, running, buys, relay, clock>>

\* lines 61-91 for the next round of the poll: the cutoff, the interval since the
\* last call (any time may have passed), the draw
process_round(s) ==
    /\ sched[s].pc = "process"
    /\ sched[s].active # <<>>
    /\ LET id == Head(sched[s].active)
           round == View(s, id)
           held == [sched[s] EXCEPT !.copy = (id :> round) @@ @]
       IN \/ /\ Len(round.numbers_called) >= NumBalls
             /\ sched' = [sched EXCEPT ![s] = [held EXCEPT !.pc = "end_commit"]]
             /\ calls' = calls
          \/ /\ Len(round.numbers_called) < NumBalls
             /\ HasLastCall(id) \/ Available(round.numbers_called) = {} \/ calls = 0
             /\ sched' = [sched EXCEPT ![s] = [held EXCEPT !.active = Tail(@)]]
             /\ calls' = calls
          \/ /\ Len(round.numbers_called) < NumBalls
             /\ calls > 0
             /\ \E number \in Draws(Available(round.numbers_called)) :
                    sched' = [sched EXCEPT ![s] = [held EXCEPT !.pc = "call_commit",
                                                               !.number = number]]
             /\ calls' = calls - 1
    /\ UNCHANGED <<store, locks, events, att, probe, running, buys, relay, clock>>

\* lines 93-102: the CalledNumber row and the new list of the round, one commit
call_commit(s) ==
    /\ sched[s].pc = "call_commit"
    /\ LET id == Head(sched[s].active)
           called == Range(View(s, id).numbers_called)
       IN /\ called_numbers' = Append(called_numbers, CalledNumber(id, sched[s].number))
          /\ rounds' = [rounds EXCEPT ![id].numbers_called =
                            Append(ListOfSet(View(s, id).numbers_called), sched[s].number)]
    /\ sched' = [sched EXCEPT ![s] = [@ EXCEPT !.pc = "call_publish", !.copy = <<>>]]
    /\ clock' = [clock EXCEPT !.called_at = Append(@, clock.now)]
    /\ UNCHANGED <<cards, users, transactions, locks, events, att, calls, probe, running, buys, relay>>

\* lines 105-112
call_publish(s) ==
    /\ sched[s].pc = "call_publish"
    /\ LET id == Head(sched[s].active)
       IN events' = Append(events, [type |-> "number_called", round_id |-> id,
                                    number |-> sched[s].number,
                                    called_numbers |-> rounds[id].numbers_called])
    /\ sched' = [sched EXCEPT ![s] = [@ EXCEPT !.pc = "process", !.active = Tail(@),
                                               !.number = 0]]
    /\ UNCHANGED <<store, locks, att, calls, probe, running, buys, relay, clock>>

\* lines 130-132
end_commit(s) ==
    /\ sched[s].pc = "end_commit"
    /\ rounds' = [rounds EXCEPT ![Head(sched[s].active)] =
                      [@ EXCEPT !.status = "completed", !.end_time = Stamp(s)]]
    /\ sched' = [sched EXCEPT ![s] = [@ EXCEPT !.pc = "end_publish", !.copy = <<>>]]
    /\ UNCHANGED <<cards, users, transactions, called_numbers, locks, events, att, calls, probe, running, buys, relay, clock>>

\* lines 134-137
end_publish(s) ==
    /\ sched[s].pc = "end_publish"
    /\ events' = Append(events, [type |-> "round_ended", round_id |-> Head(sched[s].active)])
    /\ sched' = [sched EXCEPT ![s].pc = "create_commit"]
    /\ UNCHANGED <<store, locks, att, calls, probe, running, buys, relay, clock>>

\* lines 140, 146-154: _create_next_round up to its commit
create_commit(s) ==
    /\ sched[s].pc = "create_commit"
    /\ rounds' = Append(rounds, Round(rounds[Head(sched[s].active)].room_id, "waiting", Stamp(s)))
    /\ sched' = [sched EXCEPT ![s] = [@ EXCEPT !.pc = "create_publish",
                                               !.new_id = Len(rounds) + 1]]
    /\ UNCHANGED <<cards, users, transactions, called_numbers, locks, events, att, calls, probe, running, buys, relay, clock>>

\* lines 156-161, 142
create_publish(s) ==
    /\ sched[s].pc = "create_publish"
    /\ events' = Append(events, [type |-> "new_round", round_id |-> sched[s].new_id])
    /\ sched' = [sched EXCEPT ![s] = [@ EXCEPT !.pc = "process", !.active = Tail(@),
                                               !.new_id = 0]]
    /\ UNCHANGED <<store, locks, att, calls, probe, running, buys, relay, clock>>

\* lines 50-55: after the active rounds, the waiting rounds are loaded
poll_waiting(s) ==
    /\ sched[s].pc = "process"
    /\ sched[s].active = <<>>
    /\ sched' = [sched EXCEPT ![s] = [@ EXCEPT !.pc = "start",
                                               !.waiting = Ascending(IdsWithStatus("waiting")),
                                               !.copy = Loaded(IdsWithStatus("waiting")) @@ @]]
    /\ UNCHANGED <<store, locks, events, att, calls, probe, running, buys, relay, clock>>

\* _start_round only for a round with cards sold, any other is passed over
start_commit_needs_cards(s) ==
    /\ sched[s].pc = "start"
    /\ sched[s].waiting # <<>>
    /\ IF View(s, Head(sched[s].waiting)).total_pool > 0
       THEN /\ rounds' = [rounds EXCEPT ![Head(sched[s].waiting)] =
                              [@ EXCEPT !.status = "active", !.start_time = Stamp(s)]]
            /\ sched' = [sched EXCEPT ![s] = [@ EXCEPT !.pc = "start_publish", !.copy = <<>>]]
            /\ clock' = [clock EXCEPT !.start_time = (Head(sched[s].waiting) :> clock.now) @@ @]
       ELSE /\ rounds' = rounds
            /\ sched' = [sched EXCEPT ![s].waiting = Tail(@)]
            /\ clock' = clock
    /\ UNCHANGED <<cards, users, transactions, called_numbers, locks, events, att, calls, probe, running, buys, relay>>

\* lines 116-118
start_commit(s) ==
    /\ sched[s].pc = "start"
    /\ sched[s].waiting # <<>>
    /\ rounds' = [rounds EXCEPT ![Head(sched[s].waiting)] =
                      [@ EXCEPT !.status = "active", !.start_time = Stamp(s)]]
    /\ sched' = [sched EXCEPT ![s] = [@ EXCEPT !.pc = "start_publish", !.copy = <<>>]]
    /\ clock' = [clock EXCEPT !.start_time = (Head(sched[s].waiting) :> clock.now) @@ @]
    /\ UNCHANGED <<cards, users, transactions, called_numbers, locks, events, att, calls, probe, running, buys, relay>>

\* lines 120-126
start_publish(s) ==
    /\ sched[s].pc = "start_publish"
    /\ events' = Append(events, [type |-> "round_started", round_id |-> Head(sched[s].waiting)])
    /\ sched' = [sched EXCEPT ![s] = [@ EXCEPT !.pc = "start", !.waiting = Tail(@)]]
    /\ UNCHANGED <<store, locks, att, calls, probe, running, buys, relay, clock>>

\* lines 58-59, 35: the poll is over, the session is closed, the loop sleeps
poll_end(s) ==
    /\ sched[s].pc = "start"
    /\ sched[s].waiting = <<>>
    /\ sched' = [sched EXCEPT ![s] = Asleep]
    /\ clock' = [clock EXCEPT !.slept[s] = clock.now]
    /\ UNCHANGED <<store, locks, events, att, calls, probe, running, buys, relay>>

\* lines 31-35, 58-59: a store or publish call of the poll raises; the pending
\* changes are dropped with the session, _round_loop logs the error and sleeps
poll_error(s) ==
    /\ sched[s].pc # "sleep"
    /\ sched' = [sched EXCEPT ![s] = Asleep]
    /\ clock' = [clock EXCEPT !.slept[s] = clock.now]
    /\ UNCHANGED <<store, locks, events, att, calls, probe, running, buys, relay>>

\* lines 24-26: stop() of the RoundWorker of process w
stop(w) ==
    /\ running[w]
    /\ running' = [running EXCEPT ![w] = FALSE]
    /\ UNCHANGED <<store, locks, events, att, sched, calls, probe, buys, relay, clock>>

\* a loop task that start() has not created yet
NotCreated == [Asleep EXCEPT !.pc = "none"]

\* the loops of worker w that start() can still create
Spare(w) == {s \in DOMAIN sched : Owner(s) = w /\ sched[s].pc = "none"}

\* lines 18-22: start() of the RoundWorker of process w sets the flag and
\* creates a loop task, whatever the flag was and whatever loops there are
start(w) ==
    /\ Spare(w) # {}
    /\ running' = [running EXCEPT ![w] = TRUE]
    /\ sched' = [sched EXCEPT ![SetMin(Spare(w))] = Asleep]
    /\ UNCHANGED <<store, locks, events, att, calls, probe, buys, relay, clock>>

\* line 29: after the sleep the flag is clear, _round_loop returns
loop_exit(s) ==
    /\ sched[s].pc = "sleep"
    /\ ~running[Owner(s)]
    /\ sched' = [sched EXCEPT ![s].pc = "exited"]
    /\ UNCHANGED <<store, locks, events, att, calls, probe, running, buys, relay, clock>>

(* ------------------------------------------------------------------ *)
(* The poll loop on the wall clock                                     *)
(* ------------------------------------------------------------------ *)
\* A second passes.
tick ==
    /\ clock.now < MaxTime
    /\ clock' = [clock EXCEPT !.now = @ + 1]
    /\ UNCHANGED <<store, locks, events, att, sched, calls, probe, running, buys, relay>>

\* lines 69-71: called_at of the latest CalledNumber row of the round
LastCalledAt(id) ==
    LET of_round == {i \in DOMAIN called_numbers : called_numbers[i].round_id = id}
    IN clock.called_at[CHOOSE i \in of_round :
                           \A j \in of_round : clock.called_at[j] <= clock.called_at[i]]

\* lines 73-76: a last call there is, and less than the interval ago
TooSoon(id) == HasLastCall(id) /\ clock.now - LastCalledAt(id) < NUMBER_CALL_INTERVAL

\* lines 29-35: a poll begins once the sleep after the poll before is over
poll_after_sleep(s) ==
    /\ clock.now - clock.slept[s] >= POLL_SLEEP
    /\ poll_active(s)

\* _process_round with utcnow() of line 74 read from the clock: the round is
\* passed over when its last call is too recent, and only then
process_round_on_time(s) ==
    /\ process_round(s)
    /\ Len(View(s, Head(sched[s].active)).numbers_called) < NumBalls
           => IF TooSoon(Head(sched[s].active))
              THEN sched'[s].pc = "process"
              ELSE sched'[s].pc = "call_commit" \/ calls = 0
                       \/ Available(View(s, Head(sched[s].active)).numbers_called) = {}

(* ------------------------------------------------------------------ *)
(* The purchase endpoint: main.py buy_card                             *)
(* ------------------------------------------------------------------ *)
\* The request's session loads the user and the round once (lines 101, 106);
\* nothing is flushed before the commit of line 163, which writes the values
\* computed from what was loaded.  Line 128 names `random`, which main.py does
\* not import; it is read as line 91 of workers.py, where the module is
\* imported.
BuyStamp(b) == InitStamp + NumPollers + b

\* lines 121-130: the rows of the new card, drawn among two cards
CardDraws == {Card1Numbers, Card2Numbers}

\* lines 90-115: the queries and the checks of a request
buy_card(user_id, round_id) ==
    /\ Len(buys) < MaxBuys
    /\ LET found == round_id \in DOMAIN rounds /\ rounds[round_id].status = "waiting"
           result == IF ~found THEN "Round not available"
                     ELSE IF users[user_id] < CardPrice THEN "Insufficient balance"
                     ELSE "none"
       IN buys' = Append(buys, [pc |-> IF result = "none" THEN "rate_limit" ELSE "done",
                                user_id |-> user_id, round_id |-> round_id,
                                total_pool |-> IF found THEN rounds[round_id].total_pool ELSE 0,
                                balance |-> users[user_id],
                                card_id |-> 0, result |-> result])
    /\ UNCHANGED <<store, locks, events, att, sched, calls, probe, running, relay, clock>>

\* lines 117-119: the await of the rate limit; five requests a minute pass
buy_rate_limit(b) ==
    /\ b \in DOMAIN buys
    /\ buys[b].pc = "rate_limit"
    /\ buys' = [buys EXCEPT ![b].pc = "commit"]
    /\ UNCHANGED <<store, locks, events, att, sched, calls, probe, running, relay, clock>>

\* database.py line 74, the unique index idx_unique_card: the user has a card
\* of the round
HasCard(user_id, round_id) ==
    \E c \in DOMAIN cards : cards[c].user_id = user_id /\ cards[c].round_id = round_id

\* lines 121-170: the card, the balance, the pool and the ledger row, one
\* commit, which the unique index of the cards rejects as a whole when the user
\* has a card of the round
buy_commit(b) ==
    /\ b \in DOMAIN buys
    /\ buys[b].pc = "commit"
    /\ IF HasCard(buys[b].user_id, buys[b].round_id)
       THEN /\ buys' = [buys EXCEPT ![b] = [@ EXCEPT !.pc = "done", !.result = "raised"]]
            /\ UNCHANGED <<cards, users, rounds, transactions>>
       ELSE /\ LET card_id == Cardinality(DOMAIN cards) + 1
               IN /\ \E numbers \in CardDraws :
                         cards' = (card_id :> Card(buys[b].round_id, buys[b].user_id, numbers))
                                      @@ cards
                  /\ buys' = [buys EXCEPT ![b] = [@ EXCEPT !.pc = "done", !.card_id = card_id,
                                                           !.result = "success"]]
            /\ users' = [users EXCEPT ![buys[b].user_id] = buys[b].balance - CardPrice]
            /\ rounds' = [rounds EXCEPT
                              ![buys[b].round_id].total_pool = buys[b].total_pool + CardPrice]
            /\ transactions' =
                   Append(transactions,
                          Transaction(buys[b].user_id, 0 - CardPrice, "buy_card", BuyStamp(b)))
    /\ UNCHANGED <<called_numbers, locks, events, att, sched, calls, probe, running, relay, clock>>

(* ------------------------------------------------------------------ *)
(* The payment webhook: main.py payment_webhook                        *)
(* ------------------------------------------------------------------ *)
\* the deposits committed so far
Deposits == {i \in DOMAIN transactions : transactions[i].type = "deposit"}

DepositStamp == InitStamp + NumPollers + MaxBuys + Cardinality(Deposits) + 1

\* the amount of a deposit: the price of a card
DepositAmounts == {CardPrice}

\* lines 293-309: the user is loaded, credited and the ledger row inserted, one
\* commit; nothing is awaited between the query and the commit
payment_webhook(user_id, amount) ==
    /\ Cardinality(Deposits) < MaxDeposits
    /\ users' = [users EXCEPT ![user_id] = @ + amount]
    /\ transactions' = Append(transactions,
                              Transaction(user_id, amount, "deposit", DepositStamp))
    /\ UNCHANGED <<rounds, cards, called_numbers, locks, events, att, sched, calls, probe,
                   running, buys, relay, clock>>

(* ------------------------------------------------------------------ *)
(* The websocket relay: websocket.py                                   *)
(* ------------------------------------------------------------------ *)
\* A socket is named by the order of its connection.  Every connection has its
\* own subscription to the channel of its room and its own _redis_listener
\* task; a subscription delivers the messages of its channel published from
\* the subscribe on, in order: the listener's cursor is its place in `events`.
RoomIds == {1, 2}

\* the channel f"room:{round.room_id}" an event is published on
Channel(e) == rounds[e.round_id].room_id

\* who connects where: both users to room 1, user 1 to room 2
Connections == {<<1, 1>>, <<1, 2>>, <<2, 1>>}

\* what a client sends: a claim for card 1, a purchase for round 1
ClientMessages == {[type |-> "claim", id |-> 1], [type |-> "buy_card", id |-> 1]}

NoMessage == [type |-> "none", id |-> 0]

\* send_json on a socket returns when its client is there and raises otherwise
Sendable(ws) == sockets[ws].alive

\* lines 16-25, 63: the socket is accepted and registered
connect(room_id, user_id) ==
    /\ Cardinality(DOMAIN sockets) < MaxSockets
    /\ LET ws == Cardinality(DOMAIN sockets) + 1
       IN /\ active_connections' =
                 IF room_id \in DOMAIN active_connections
                 THEN [active_connections EXCEPT ![room_id] = @ \cup {ws}]
                 ELSE (room_id :> {ws}) @@ active_connections
          /\ user_connections' = (user_id :> ws) @@ user_connections
          /\ sockets' = (ws :> [pc |-> "subscribe", room_id |-> room_id, user_id |-> user_id,
                                alive |-> TRUE, sent |-> <<>>, data |-> NoMessage,
                                received |-> 0]) @@ sockets
    /\ UNCHANGED <<store, locks, events, att, sched, calls, probe, running, buys, listeners, clock>>

\* lines 66-71: the subscription and the listener task of the connection
subscribe(ws) ==
    /\ ws \in DOMAIN sockets
    /\ sockets[ws].pc = "subscribe"
    /\ sockets' = [sockets EXCEPT ![ws].pc = "receive"]
    /\ listeners' = (ws :> [pc |-> "listen", since |-> Len(events) + 1,
                            cursor |-> Len(events) + 1, until |-> 0, subscribed |-> TRUE,
                            target |-> 0, size |-> 0, initial |-> {}, visited |-> {},
                            disconnected |-> {}]) @@ listeners
    /\ UNCHANGED <<store, locks, events, att, sched, calls, probe, running, buys,
                   active_connections, user_connections, clock>>

\* redis_client.py lines 47-49, called by a scheduler or a claim coordinator:
\* a message, the n-th of the behaviour, on the channel of a round's room
publish(round_id) ==
    /\ round_id \in DOMAIN rounds
    /\ Len(events) < MaxMessages
    /\ events' = Append(events, [type |-> "number_called", round_id |-> round_id,
                                 number |-> Len(events) + 1])
    /\ UNCHANGED <<store, locks, att, sched, calls, probe, running, buys, relay, clock>>

\* the messages of the listener's subscription it has not taken yet: those of
\* the channel of its room, published while it was subscribed
Inbound(ws) ==
    {k \in listeners[ws].cursor..Len(events) :
         /\ Channel(events[k]) = sockets[ws].room_id
         /\ listeners[ws].subscribed \/ k <= listeners[ws].until}

\* the turn of the loop of broadcast_to_room (line 39) for a listener that has
\* visited `visited` out of the `initial` sockets of the room: RuntimeError
\* when the set has another size than at the start of the loop (the exception
\* ends the listener at line 89); with the same size the iterator goes on
\* over the table: a socket that was there from the start is visited, one
\* added since may be; after the last socket, lines 46-47 discard the sockets
\* whose send raised.  The result is the listener and the set of the room.
NextTurn(l, current) ==
    LET must == (l.initial \cap current) \ l.visited
        may == (current \ l.initial) \ l.visited
        ended == [l EXCEPT !.pc = "listen", !.target = 0, !.size = 0, !.initial = {},
                           !.visited = {}, !.disconnected = {}]
    IN IF Cardinality(current) # l.size
       THEN {<<[l EXCEPT !.pc = "dead", !.target = 0], current>>}
       ELSE {<<[l EXCEPT !.pc = "send", !.target = connection], current>> :
                 connection \in must \cup may}
            \cup (IF must = {} THEN {<<ended, current \ l.disconnected>>} ELSE {})

\* lines 85-88, 36-41: the listener takes the next message of its channel,
\* broadcast_to_room begins to iterate over the set of the room and awaits the
\* first send
listen(ws) ==
    /\ ws \in DOMAIN listeners
    /\ listeners[ws].pc = "listen"
    /\ Inbound(ws) # {}
    /\ LET room_id == sockets[ws].room_id
           k == CHOOSE i \in Inbound(ws) : \A j \in Inbound(ws) : i <= j
           taken == [listeners[ws] EXCEPT !.cursor = k + 1]
       IN IF room_id \in DOMAIN active_connections
          THEN \E turn \in NextTurn([taken EXCEPT
                                        !.size = Cardinality(active_connections[room_id]),
                                        !.initial = active_connections[room_id]],
                                    active_connections[room_id]) :
                   /\ listeners' = [listeners EXCEPT ![ws] = turn[1]]
                   /\ active_connections' = [active_connections EXCEPT ![room_id] = turn[2]]
          ELSE /\ listeners' = [listeners EXCEPT ![ws] = taken]
               /\ active_connections' = active_connections
    /\ UNCHANGED <<store, locks, events, att, sched, calls, probe, running, buys,
                   user_connections, sockets, clock>>

\* line 85 after the unsubscribe: pubsub.listen() is exhausted, the task ends
listen_end(ws) ==
    /\ ws \in DOMAIN listeners
    /\ listeners[ws].pc = "listen"
    /\ ~listeners[ws].subscribed
    /\ Inbound(ws) = {}
    /\ listeners' = [listeners EXCEPT ![ws].pc = "done"]
    /\ UNCHANGED <<store, locks, events, att, sched, calls, probe, running, buys,
                   active_connections, user_connections, sockets, clock>>

\* lines 41-47, 89-90: the awaited send_json returns or raises, and the loop of
\* broadcast_to_room takes its next turn, up to the next await
broadcast_step(ws) ==
    /\ ws \in DOMAIN listeners
    /\ listeners[ws].pc = "send"
    /\ LET room_id == sockets[ws].room_id
           connection == listeners[ws].target
           message == events[listeners[ws].cursor - 1]
           after == IF Sendable(connection)
                    THEN [listeners[ws] EXCEPT !.visited = @ \cup {connection}]
                    ELSE [listeners[ws] EXCEPT !.visited = @ \cup {connection},
                                               !.disconnected = @ \cup {connection}]
       IN /\ sockets' = IF Sendable(connection)
                        THEN [sockets EXCEPT ![connection].sent = Append(@, message)]
                        ELSE sockets
          /\ \E turn \in NextTurn(after, active_connections[room_id]) :
                 /\ listeners' = [listeners EXCEPT ![ws] = turn[1]]
                 /\ active_connections' = [active_connections EXCEPT ![room_id] = turn[2]]
    /\ UNCHANGED <<store, locks, events, att, sched, calls, probe, running, buys, user_connections, clock>>

\* the client of a socket goes away
drop(ws) ==
    /\ ws \in DOMAIN sockets
    /\ sockets[ws].alive
    /\ sockets' = [sockets EXCEPT ![ws].alive = FALSE]
    /\ UNCHANGED <<store, locks, events, att, sched, calls, probe, running, buys,
                   active_connections, user_connections, listeners, clock>>

\* lines 75, 78-79, 27-32: receive_json raises WebSocketDisconnect
disconnect(ws) ==
    /\ ws \in DOMAIN sockets
    /\ sockets[ws].pc = "receive"
    /\ ~sockets[ws].alive
    /\ active_connections' =
           IF sockets[ws].room_id \in DOMAIN active_connections
           THEN [active_connections EXCEPT ![sockets[ws].room_id] = @ \ {ws}]
           ELSE active_connections
    /\ user_connections' =
           [u \in DOMAIN user_connections \ {sockets[ws].user_id} |-> user_connections[u]]
    /\ sockets' = [sockets EXCEPT ![ws].pc = "unsubscribe"]
    /\ UNCHANGED <<store, locks, events, att, sched, calls, probe, running, buys, listeners, clock>>

\* line 80
unsubscribe(ws) ==
    /\ ws \in DOMAIN sockets
    /\ sockets[ws].pc = "unsubscribe"
    /\ sockets' = [sockets EXCEPT ![ws].pc = "closed"]
    /\ listeners' = [listeners EXCEPT ![ws] = [@ EXCEPT !.subscribed = FALSE,
                                                        !.until = Len(events)]]
    /\ UNCHANGED <<store, locks, events, att, sched, calls, probe, running, buys,
                   active_connections, user_connections, clock>>

\* the number of client messages received so far
RECURSIVE ReceivedUpTo(_)
ReceivedUpTo(ws) ==
    IF ws = 0 THEN 0
    ELSE ReceivedUpTo(ws - 1) + (IF ws \in DOMAIN sockets THEN sockets[ws].received ELSE 0)

Received == ReceivedUpTo(MaxSockets)

\* line 75: a message of the client
receive(ws, data) ==
    /\ ws \in DOMAIN sockets
    /\ sockets[ws].pc = "receive"
    /\ sockets[ws].alive
    /\ Received < MaxClientMessages
    /\ sockets' = [sockets EXCEPT ![ws] = [@ EXCEPT !.pc = "handle", !.data = data,
                                                    !.received = @ + 1]]
    /\ UNCHANGED <<store, locks, events, att, sched, calls, probe, running, buys,
                   active_connections, user_connections, listeners, clock>>

\* lines 76, 92-109, 49-55: a claim is answered with claim_status on the socket
\* registered for the user, whose entry is deleted when the send raises; a
\* purchase and any other message are dropped
handle_client_message(ws) ==
    /\ ws \in DOMAIN sockets
    /\ sockets[ws].pc = "handle"
    /\ LET user_id == sockets[ws].user_id
           back == [sockets EXCEPT ![ws] = [@ EXCEPT !.pc = "receive", !.data = NoMessage]]
       IN IF sockets[ws].data.type = "claim" /\ user_id \in DOMAIN user_connections
          THEN IF Sendable(user_connections[user_id])
               THEN /\ sockets' = [back EXCEPT ![user_connections[user_id]].sent =
                                       Append(@, [type |-> "claim_status",
                                                  status |-> "processing"])]
                    /\ user_connections' = user_connections
               ELSE /\ sockets' = back
                    /\ user_connections' =
                           [u \in DOMAIN user_connections \ {user_id} |-> user_connections[u]]
          ELSE /\ sockets' = back
               /\ user_connections' = user_connections
    /\ UNCHANGED <<store, locks, events, att, sched, calls, probe, running, buys,
                   active_connections, listeners, clock>>

(* ------------------------------------------------------------------ *)
(* Specifications                                                      *)
(* ------------------------------------------------------------------ *)
\* The claim coordinator: NumAttempts concurrent requests, the lock server and
\* its leases.
Next ==
    \/ \E p \in Attempts, q \in Requests : claim_win(p, q[1], q[2], q[3])
    \/ \E p \in Attempts : acquire_lock(p)
    \/ \E p \in Attempts : query_round(p)
    \/ \E p \in Attempts : query_card(p)
    \/ \E p \in Attempts : commit(p)
    \/ \E p \in Attempts : publish_winner(p)
    \/ \E p \in Attempts : store_error(p)
    \/ \E p \in Attempts : publish_error(p)
    \/ \E p \in Attempts : release_lock(p)
    \/ \E k \in LockKeys : lease_expiry(k)

Spec == Init /\ [][Next]_vars

\* The scheduler's poll loop beside one claim request.
SchedNext ==
    \/ \E s \in Schedulers : poll_active(s)
    \/ \E s \in Schedulers : process_round(s)
    \/ \E s \in Schedulers : call_commit(s)
    \/ \E s \in Schedulers : call_publish(s)
    \/ \E s \in Schedulers : end_commit(s)
    \/ \E s \in Schedulers : end_publish(s)
    \/ \E s \in Schedulers : create_commit(s)
    \/ \E s \in Schedulers : create_publish(s)
    \/ \E s \in Schedulers : poll_waiting(s)
    \/ \E s \in Schedulers : start_commit(s)
    \/ \E s \in Schedulers : start_publish(s)
    \/ \E s \in Schedulers : poll_end(s)
    \/ \E s \in Schedulers : poll_error(s)

RaceNext ==
    \/ \E q \in Requests : claim_win(1, q[1], q[2], q[3])
    \/ acquire_lock(1)
    \/ query_round(1)
    \/ query_card(1)
    \/ commit(1)
    \/ publish_winner(1)
    \/ store_error(1)
    \/ publish_error(1)
    \/ release_lock(1)
    \/ \E k \in LockKeys : lease_expiry(k)
    \/ SchedNext

SpecRace == InitRace /\ [][RaceNext]_vars

\* The poll loops of NumPollers processes (main.py startup starts one RoundWorker
\* in every server process), no claim request.
Pollers == 1..NumPollers

\* Round 1 as the behaviour starts, and the number of calls followed from there:
\* MaxPollCalls calls from the 24 numbers of CalledNear; from CalledAll the
\* cutoff, the successor rounds and their start, without a further call.
PollScenarios == {<<CalledNear, MaxPollCalls>>, <<CalledAll, 0>>}

InitPoll ==
    \E scenario \in PollScenarios :
      LET called == scenario[1] IN
        /\ rounds = <<InitRound(called)>>
        /\ cards = (1 :> Card(1, 1, Card1Numbers)) @@ (2 :> Card(1, 2, Card2Numbers))
        /\ users = [u \in UserIds |-> InitBalance]
        /\ transactions = <<>>
        /\ called_numbers = InitCalledNumbers(called)
        /\ locks = [k \in LockKeys |-> 0]
        /\ events = <<>>
        /\ att = [p \in Attempts |-> NoAttempt]
        /\ sched = [s \in Pollers |-> Asleep]
        /\ calls = scenario[2]
        /\ probe = NoProbe
        /\ Started
        /\ Unused
        /\ Midnight

PollNext ==
    \/ \E s \in Pollers : poll_active(s)
    \/ \E s \in Pollers : process_round(s)
    \/ \E s \in Pollers : call_commit(s)
    \/ \E s \in Pollers : call_publish(s)
    \/ \E s \in Pollers : end_commit(s)
    \/ \E s \in Pollers : end_publish(s)
    \/ \E s \in Pollers : create_commit(s)
    \/ \E s \in Pollers : create_publish(s)
    \/ \E s \in Pollers : poll_waiting(s)
    \/ \E s \in Pollers : start_commit(s)
    \/ \E s \in Pollers : start_publish(s)
    \/ \E s \in Pollers : poll_end(s)
    \/ \E s \in Pollers : poll_error(s)

SpecPoll == InitPoll /\ [][PollNext]_vars

\* A round from its start on: round 1 is waiting, its cards are sold; the poll
\* loops start it and call numbers, user 1 claims with card 1.  Behaviours
\* without an infrastructure failure, up to the RowLen calls a full row needs;
\* poll loop 1 is followed through all it does, the other poll loops through
\* the start of the waiting rounds.
InitStart ==
    /\ rounds = <<[Round(1, "waiting", InitStamp) EXCEPT !.total_pool = 2 * CardPrice]>>
    /\ cards = (1 :> Card(1, 1, Card1Numbers)) @@ (2 :> Card(1, 2, Card2Numbers))
    /\ users = [u \in UserIds |-> InitBalance]
    /\ transactions = <<>>
    /\ called_numbers = <<>>
    /\ locks = [k \in LockKeys |-> 0]
    /\ events = <<>>
    /\ att = [p \in Attempts |-> NoAttempt]
    /\ sched = [s \in Pollers |-> Asleep]
    /\ calls = RowLen
    /\ probe = NoProbe
    /\ Started
    /\ Unused
    /\ Midnight

StartNext ==
    \/ claim_win(1, 1, 1, 1)
    \/ acquire_lock(1)
    \/ query_round(1)
    \/ query_card(1)
    \/ commit(1)
    \/ publish_winner(1)
    \/ release_lock(1)
    \/ \E s \in Pollers : poll_active(s)
    \/ process_round(1)
    \/ call_commit(1)
    \/ call_publish(1)
    \/ \E s \in Pollers : poll_waiting(s)
    \/ \E s \in Pollers : start_commit(s)
    \/ \E s \in Pollers : start_publish(s)
    \/ \E s \in Pollers : poll_end(s)

SpecStart == InitStart /\ [][StartNext]_vars

\* One poll loop with its failures and the stop() of its worker; no claim
\* request.  The sleep of line 35 ends, and a store or publish call that does
\* not raise returns: every step of the loop but the failure is taken when it
\* stays possible.
LoopNext ==
    \/ SchedNext
    \/ \E s \in Schedulers : stop(s)
    \/ \E s \in Schedulers : loop_exit(s)

LoopFairness ==
    \A s \in Schedulers :
        /\ WF_vars(poll_active(s)) /\ WF_vars(process_round(s))
        /\ WF_vars(call_commit(s)) /\ WF_vars(call_publish(s))
        /\ WF_vars(end_commit(s)) /\ WF_vars(end_publish(s))
        /\ WF_vars(create_commit(s)) /\ WF_vars(create_publish(s))
        /\ WF_vars(poll_waiting(s)) /\ WF_vars(start_commit(s))
        /\ WF_vars(start_publish(s)) /\ WF_vars(poll_end(s))
        /\ WF_vars(loop_exit(s))

SpecLoop == InitRace /\ [][LoopNext]_vars /\ LoopFairness

\* One poll loop that is never stopped and whose calls never raise.  Round 1
\* starts waiting, with its cards sold, or active and MaxPollCalls calls short
\* of the cutoff, with a budget of as many calls.  Time passes: the call
\* interval of an active round has elapsed at some poll again and again, so the
\* draw of _process_round is taken when it is possible again and again.
CycleScenarios ==
    {<<"waiting", <<>>, 0>>, <<"active", Run(1, NumBalls - MaxPollCalls), MaxPollCalls>>}

InitCycle ==
    \E scenario \in CycleScenarios :
        /\ rounds = <<[InitRound(scenario[2]) EXCEPT
                          !.status = scenario[1],
                          !.start_time = IF scenario[1] = "waiting" THEN 0 ELSE InitStamp]>>
        /\ cards = (1 :> Card(1, 1, Card1Numbers)) @@ (2 :> Card(1, 2, Card2Numbers))
        /\ users = [u \in UserIds |-> InitBalance]
        /\ transactions = <<>>
        /\ called_numbers = InitCalledNumbers(scenario[2])
        /\ locks = [k \in LockKeys |-> 0]
        /\ events = <<>>
        /\ att = [p \in Attempts |-> NoAttempt]
        /\ sched = [s \in Schedulers |-> Asleep]
        /\ calls = scenario[3]
        /\ probe = NoProbe
        /\ Started
        /\ Unused
        /\ Midnight

CycleNext ==
    \/ \E s \in Schedulers : poll_active(s)
    \/ \E s \in Schedulers : process_round(s)
    \/ \E s \in Schedulers : call_commit(s)
    \/ \E s \in Schedulers : call_publish(s)
    \/ \E s \in Schedulers : end_commit(s)
    \/ \E s \in Schedulers : end_publish(s)
    \/ \E s \in Schedulers : create_commit(s)
    \/ \E s \in Schedulers : create_publish(s)
    \/ \E s \in Schedulers : poll_waiting(s)
    \/ \E s \in Schedulers : start_commit(s)
    \/ \E s \in Schedulers : start_publish(s)
    \/ \E s \in Schedulers : poll_end(s)

CycleFairness ==
    \A s \in Schedulers :
        /\ WF_vars(poll_active(s)) /\ WF_vars(process_round(s))
        /\ SF_vars(process_round(s) /\ sched'[s].pc = "call_commit")
        /\ WF_vars(call_commit(s)) /\ WF_vars(call_publish(s))
        /\ WF_vars(end_commit(s)) /\ WF_vars(end_publish(s))
        /\ WF_vars(create_commit(s)) /\ WF_vars(create_publish(s))
        /\ WF_vars(poll_waiting(s)) /\ WF_vars(start_commit(s))
        /\ WF_vars(start_publish(s)) /\ WF_vars(poll_end(s))

SpecCycle == InitCycle /\ [][CycleNext]_vars /\ CycleFairness

\* One poll loop on the wall clock, none of its calls raises.  Round 1 is
\* waiting with its cards sold, or active with the 24 numbers of CalledNear, the
\* last of them called as the behaviour starts.
TimedScenarios == {<<"waiting", <<>>>>, <<"active", CalledNear>>}

InitTimed ==
    \E scenario \in TimedScenarios :
        /\ rounds = <<[InitRound(scenario[2]) EXCEPT
                          !.status = scenario[1],
                          !.start_time = IF scenario[1] = "waiting" THEN 0 ELSE InitStamp]>>
        /\ cards = (1 :> Card(1, 1, Card1Numbers)) @@ (2 :> Card(1, 2, Card2Numbers))
        /\ users = [u \in UserIds |-> InitBalance]
        /\ transactions = <<>>
        /\ called_numbers = InitCalledNumbers(scenario[2])
        /\ locks = [k \in LockKeys |-> 0]
        /\ events = <<>>
        /\ att = [p \in Attempts |-> NoAttempt]
        /\ sched = [s \in Schedulers |-> Asleep]
        /\ calls = MaxPollCalls
        /\ probe = NoProbe
        /\ Started
        /\ Unused
        /\ Midnight

TimedNext ==
    \/ tick
    \/ \E s \in Schedulers : poll_after_sleep(s)
    \/ \E s \in Schedulers : process_round_on_time(s)
    \/ \E s \in Schedulers : call_commit(s)
    \/ \E s \in Schedulers : call_publish(s)
    \/ \E s \in Schedulers : poll_waiting(s)
    \/ \E s \in Schedulers : start_commit(s)
    \/ \E s \in Schedulers : start_publish(s)
    \/ \E s \in Schedulers : poll_end(s)

SpecTimed == InitTimed /\ [][TimedNext]_vars

\* The claim coordinator with two rooms open.  Round 1 of room 1 is active with
\* the cards of users 1 and 2 and no full row; Round 2 of room 2 is active with
\* card 3 of user 2, and the 12 numbers of CalledJackpot were called in it.
InitRooms ==
    /\ rounds = <<InitRound(CalledNear),
                  [InitRound(CalledJackpot) EXCEPT !.room_id = 2, !.total_pool = CardPrice]>>
    /\ cards = (1 :> Card(1, 1, Card1Numbers)) @@ (2 :> Card(1, 2, Card2Numbers))
                 @@ (3 :> Card(2, 2, Card2Numbers))
    /\ users = [u \in UserIds |-> InitBalance]
    /\ transactions = <<>>
    /\ called_numbers = InitCalledNumbers(CalledNear)
                           \o [i \in DOMAIN CalledJackpot |-> CalledNumber(2, CalledJackpot[i])]
    /\ locks = [k \in LockKeys |-> 0]
    /\ events = <<>>
    /\ att = [p \in Attempts |-> NoAttempt]
    /\ sched = [s \in Schedulers |-> Asleep]
    /\ calls = 0
    /\ probe = NoProbe
    /\ Started
    /\ Unused
    /\ Midnight

SpecRooms == InitRooms /\ [][Next]_vars

\* The RoundWorker of one process with its start() and stop(): the loop of the
\* startup and the loops that MaxStarts later calls of start() create.
Loops == {w + NumPollers * k : w \in Schedulers, k \in 0..MaxStarts}

InitRestart ==
    \E called \in InitCalledRace :
        /\ rounds = <<InitRound(called)>>
        /\ cards = (1 :> Card(1, 1, Card1Numbers)) @@ (2 :> Card(1, 2, Card2Numbers))
        /\ users = [u \in UserIds |-> InitBalance]
        /\ transactions = <<>>
        /\ called_numbers = InitCalledNumbers(called)
        /\ locks = [k \in LockKeys |-> 0]
        /\ events = <<>>
        /\ att = [p \in Attempts |-> NoAttempt]
        /\ sched = [s \in Loops |-> IF s \in Schedulers THEN Asleep ELSE NotCreated]
        /\ calls = MaxCalls
        /\ probe = NoProbe
        /\ running = [w \in Schedulers |-> TRUE]
        /\ Unused
        /\ Midnight

RestartNext ==
    \/ \E w \in Schedulers : start(w)
    \/ \E w \in Schedulers : stop(w)
    \/ \E s \in Loops : loop_exit(s)
    \/ \E s \in Loops : poll_active(s)
    \/ \E s \in Loops : process_round(s)
    \/ \E s \in Loops : call_commit(s)
    \/ \E s \in Loops : call_publish(s)
    \/ \E s \in Loops : end_commit(s)
    \/ \E s \in Loops : end_publish(s)
    \/ \E s \in Loops : create_commit(s)
    \/ \E s \in Loops : create_publish(s)
    \/ \E s \in Loops : poll_waiting(s)
    \/ \E s \in Loops : start_commit(s)
    \/ \E s \in Loops : start_publish(s)
    \/ \E s \in Loops : poll_end(s)

SpecRestart == InitRestart /\ [][RestartNext]_vars

\* The purchase endpoint beside one poll loop: Round 1 of room 1 is waiting,
\* every user can pay for two cards, no number is called.
Funds == 2 * CardPrice

InitBuy ==
    /\ rounds = <<Round(1, "waiting", InitStamp)>>
    /\ cards = <<>>
    /\ users = [u \in UserIds |-> Funds]
    /\ transactions = <<>>
    /\ called_numbers = <<>>
    /\ locks = [k \in LockKeys |-> 0]
    /\ events = <<>>
    /\ att = [p \in Attempts |-> NoAttempt]
    /\ sched = [s \in Schedulers |-> Asleep]
    /\ calls = 0
    /\ probe = NoProbe
    /\ Started
    /\ Unused
    /\ Midnight

BuyNext ==
    \/ \E user_id \in UserIds, round_id \in {1, 2} : buy_card(user_id, round_id)
    \/ \E b \in Buys : buy_rate_limit(b)
    \/ \E b \in Buys : buy_commit(b)
    \/ \E s \in Schedulers : poll_active(s)
    \/ \E s \in Schedulers : process_round(s)
    \/ \E s \in Schedulers : poll_waiting(s)
    \/ \E s \in Schedulers : start_commit(s)
    \/ \E s \in Schedulers : start_publish(s)
    \/ \E s \in Schedulers : poll_end(s)

SpecBuy == InitBuy /\ [][BuyNext]_vars

\* The wallet of a user under a claim request, purchases and a deposit.  Round 1
\* of room 1 is active, its cards are sold and rows of both are full; Round 2 of
\* room 2 is waiting; every user can pay for two cards.
InitLedger ==
    /\ rounds = <<InitRound(CalledBoth), Round(2, "waiting", InitStamp)>>
    /\ cards = (1 :> Card(1, 1, Card1Numbers)) @@ (2 :> Card(1, 2, Card2Numbers))
    /\ users = [u \in UserIds |-> Funds]
    /\ transactions = <<>>
    /\ called_numbers = InitCalledNumbers(CalledBoth)
    /\ locks = [k \in LockKeys |-> 0]
    /\ events = <<>>
    /\ att = [p \in Attempts |-> NoAttempt]
    /\ sched = [s \in Schedulers |-> Asleep]
    /\ calls = 0
    /\ probe = NoProbe
    /\ Started
    /\ Unused
    /\ Midnight

LedgerNext ==
    \/ \E q \in Requests : claim_win(1, q[1], q[2], q[3])
    \/ acquire_lock(1)
    \/ query_round(1)
    \/ query_card(1)
    \/ commit(1)
    \/ publish_winner(1)
    \/ store_error(1)
    \/ publish_error(1)
    \/ release_lock(1)
    \/ \E k \in LockKeys : lease_expiry(k)
    \/ \E user_id \in UserIds, round_id \in {1, 2} : buy_card(user_id, round_id)
    \/ \E b \in Buys : buy_rate_limit(b)
    \/ \E b \in Buys : buy_commit(b)
    \/ \E user_id \in UserIds, amount \in DepositAmounts : payment_webhook(user_id, amount)

SpecLedger == InitLedger /\ [][LedgerNext]_vars

\* The relay of one server process: connections of two users to two rooms, the
\* messages published on the channels of the rooms.
\* Round 1 is the open Round of room 1 and Round 2 that of room 2.
InitRelay ==
    /\ rounds = <<Round(1, "active", InitStamp), Round(2, "active", InitStamp)>>
    /\ cards = (1 :> Card(1, 1, Card1Numbers))
    /\ users = [u \in UserIds |-> InitBalance]
    /\ transactions = <<>>
    /\ called_numbers = <<>>
    /\ locks = [k \in LockKeys |-> 0]
    /\ events = <<>>
    /\ att = [p \in Attempts |-> NoAttempt]
    /\ sched = [s \in Schedulers |-> Asleep]
    /\ calls = 0
    /\ probe = NoProbe
    /\ Started
    /\ Unused
    /\ Midnight

RelayNext ==
    \/ \E c \in Connections : connect(c[1], c[2])
    \/ \E ws \in Sockets : subscribe(ws)
    \/ \E round_id \in RoomIds : publish(round_id)
    \/ \E ws \in Sockets : listen(ws)
    \/ \E ws \in Sockets : listen_end(ws)
    \/ \E ws \in Sockets : broadcast_step(ws)
    \/ \E ws \in Sockets : drop(ws)
    \/ \E ws \in Sockets : disconnect(ws)
    \/ \E ws \in Sockets : unsubscribe(ws)

SpecRelay == InitRelay /\ [][RelayNext]_vars

\* The connections of the relay and the messages of their clients, no message
\* on the room channels.
ClientNext ==
    \/ \E c \in Connections : connect(c[1], c[2])
    \/ \E ws \in Sockets : subscribe(ws)
    \/ \E ws \in Sockets : drop(ws)
    \/ \E ws \in Sockets : disconnect(ws)
    \/ \E ws \in Sockets : unsubscribe(ws)
    \/ \E ws \in Sockets : listen_end(ws)
    \/ \E ws \in Sockets, data \in ClientMessages : receive(ws, data)
    \/ \E ws \in Sockets : handle_client_message(ws)

SpecClient == InitRelay /\ [][ClientNext]_vars

(* ------------------------------------------------------------------ *)
(* Functions of the program called on their own                        *)
(* ------------------------------------------------------------------ *)
\* Nothing is stored, locked or published, no request and no poll is under way.
AtRest ==
    /\ rounds = <<>>
    /\ cards = <<>>
    /\ users = [u \in UserIds |-> InitBalance]
    /\ transactions = <<>>
    /\ called_numbers = <<>>
    /\ locks = [k \in LockKeys |-> 0]
    /\ events = <<>>
    /\ att = [p \in Attempts |-> NoAttempt]
    /\ sched = [s \in Schedulers |-> Asleep]
    /\ calls = 0
    /\ Started
    /\ Unused
    /\ Midnight

\* Cards: the three rows of card 1 in any order.
ProbeCards ==
    {<<a, b, c>> : a \in Range(Card1Numbers), b \in Range(Card1Numbers),
                  c \in Range(Card1Numbers)}
    \ {card \in Seq(Range(Card1Numbers)) : Len(card) = 3 /\ Cardinality(Range(card)) < 3}

\* Of a row, how many of its numbers were called: none, all but one, all.
ProbeMarks == {0, RowLen - 1, RowLen}

\* Called sequences: for each row of card 1 some of its numbers, by rows from the
\* last to the first, after a number that is on no row of the card.
ProbeCalled ==
    {<<NumBalls>> \o SubSeq(Card1Numbers[3], 1, k3) \o SubSeq(Card1Numbers[2], 1, k2)
                 \o SubSeq(Card1Numbers[1], 1, k1) :
         k1 \in ProbeMarks, k2 \in ProbeMarks, k3 \in ProbeMarks}

InitVerify ==
    /\ AtRest
    /\ \E card \in ProbeCards, called \in ProbeCalled :
           probe = [fn |-> "_verify_win", args |-> <<card, called>>, ret |-> <<>>]

\* ClaimProcessor._verify_win(card_numbers, called_numbers)
call_verify_win ==
    /\ probe.fn = "_verify_win"
    /\ probe.ret = <<>>
    /\ probe' = [probe EXCEPT !.ret = <<verify_win(probe.args[1], probe.args[2])>>]
    /\ UNCHANGED <<store, locks, events, att, sched, calls, running, buys, relay, clock>>

SpecVerify == InitVerify /\ [][call_verify_win]_vars

\* config.py line 44: int(os.getenv("JACKPOT_THRESHOLD", "40")); env is <<>> when
\* the variable is not set, <<n>> when it is set to n
JACKPOT_THRESHOLD(env) == IF env = <<>> THEN 40 ELSE env[1]

\* The environments of a deployment: the variable not set, or set to 41.
Environments == {<<>>, <<41>>}

\* A Round for which `sold` cards were sold and `n` numbers were called.
ProbeRound(sold, n) ==
    [Round(1, "active", InitStamp) EXCEPT !.total_pool = sold * CardPrice,
                                          !.numbers_called = Run(1, n),
                                          !.start_time = InitStamp]

InitPayout ==
    /\ AtRest
    /\ \E sold \in 0..MaxCards, n \in 0..NumBalls :
           probe = [fn |-> "payout", args |-> <<ProbeRound(sold, n)>>, ret |-> <<>>]

\* process_claim lines 197-206: the jackpot flag and the shares of the pool
call_payout ==
    /\ probe.fn = "payout"
    /\ probe.ret = <<>>
    /\ probe' = [probe EXCEPT !.ret = <<[is_jackpot |-> IsJackpot(probe.args[1]),
                                         house_cut |-> HouseCut(probe.args[1]),
                                         winner_amount |-> WinnerAmount(probe.args[1])]>>]
    /\ UNCHANGED <<store, locks, events, att, sched, calls, running, buys, relay, clock>>

SpecPayout == InitPayout /\ [][call_payout]_vars

(* ------------------------------------------------------------------ *)
(* Claims                                                              *)
(* ------------------------------------------------------------------ *)
Terminal == {"completed", "jackpot"}

Succeeded(p) == att[p].result \in {"Winner!", "Jackpot!"}

\* between a successful acquire_lock and the end of release_lock
InCritical(p) == att[p].pc \in {"query_round", "query_card", "commit", "publish", "release"}

Request(p) == <<att[p].round_id, att[p].card_id, att[p].user_id>>

\* C1: for every Round at most one process_claim call returns success, whatever
\* the interleaving of the calls.
C1_OneSuccessPerRound ==
    \A r \in LockKeys :
        Cardinality({p \in Attempts : att[p].round_id = r /\ Succeeded(p)}) <= 1

\* C2: when only card 1 has a fully called row and every request claims round 1
\* with that card, once all of them have returned a result exactly one has
\* succeeded, the winner's balance is one payout higher and the ledger holds
\* exactly one win/jackpot Transaction.
C2_ExactlyOnePayout ==
    (/\ rounds[1].numbers_called = CalledJackpot
     /\ \A p \in Attempts : /\ att[p].pc = "done"
                            /\ Request(p) = <<1, 1, 1>>
                            /\ att[p].result # "raised")
    => /\ Cardinality({p \in Attempts : Succeeded(p)}) = 1
       /\ users[1] = WinnerAmount(InitRound(CalledJackpot))
       /\ Cardinality({i \in DOMAIN transactions :
                           transactions[i].type \in {"win", "jackpot"}}) = 1

\* C3: for every round id at most one process_claim attempt is between its
\* successful acquire_lock and its release_lock.
C3_MutualExclusion ==
    \A k \in LockKeys :
        Cardinality({p \in Attempts : InCritical(p) /\ LockKey(att[p].round_id) = k}) <= 1

\* C4: a Round's terminal status is written once: no step, of the scheduler's
\* forced completion or of a claim settlement, writes the status, the winner
\* or the end time of a Round that is already completed or jackpot.
C4_OneTerminalTransition ==
    [][\A id \in DOMAIN rounds :
           rounds[id].status \in Terminal
           => /\ rounds'[id].status = rounds[id].status
              /\ rounds'[id].winner_id = rounds[id].winner_id
              /\ rounds'[id].winner_amount = rounds[id].winner_amount
              /\ rounds'[id].end_time = rounds[id].end_time]_vars

\* Round `next` was inserted by the commit of a claim on Round `id`
SuccessorOf(next, id) ==
    /\ rounds[next].created_at \in Attempts
    /\ att[rounds[next].created_at].round_id = id

\* every part of a settlement of Round `id` is in the store
SettledAll(id) ==
    LET r == rounds[id]
    IN /\ r.status \in Terminal
       /\ r.winner_id # 0
       /\ r.winner_amount > 0
       /\ r.end_time # 0
       /\ \E c \in DOMAIN cards : cards[c].user_id = r.winner_id /\ cards[c].claimed
       /\ users[r.winner_id] >= InitBalance + r.winner_amount
       /\ \E i \in DOMAIN transactions :
              /\ transactions[i].user_id = r.winner_id
              /\ transactions[i].amount = r.winner_amount
              /\ transactions[i].type = (IF r.status = "jackpot" THEN "jackpot" ELSE "win")
       /\ \E next \in DOMAIN rounds :
              /\ SuccessorOf(next, id)
              /\ rounds[next].room_id = r.room_id
              /\ rounds[next].status = "waiting"

\* no part of a settlement of Round `id` is in the store
SettledNone(id) ==
    LET r == rounds[id]
    IN /\ r.status \notin Terminal
       /\ r.winner_id = 0
       /\ r.winner_amount = 0
       /\ r.end_time = 0
       /\ \A c \in DOMAIN cards :
              cards[c].round_id = id => ~cards[c].claimed /\ users[cards[c].user_id] = InitBalance
       /\ \A i \in DOMAIN transactions : att[transactions[i].by].round_id # id
       /\ \A next \in DOMAIN rounds : ~SuccessorOf(next, id)

\* C5: settlement is all or nothing.  In every state, for every Round, either
\* the Round is completed/jackpot with winner, amount and end time, a card of
\* the winner is claimed, the winner's balance holds the amount, a win/jackpot
\* Transaction of the winner for that amount exists and a successor Round of
\* the room exists; or none of these holds for the Round.
C5_SettlementAtomic ==
    \A id \in DOMAIN rounds : SettledAll(id) \/ SettledNone(id)

\* a claim on Round 1 has committed its settlement
C5_Witness ==
    /\ SettledAll(1)
    /\ \E p \in Attempts : att[p].round_id = 1 /\ att[p].pc \in {"publish", "release", "done"}

\* C6: a process_claim attempt that ends in an infrastructure failure has
\* committed nothing.
C6_FailureCommitsNothing ==
    \A p \in Attempts :
        att[p].result = "raised" => \A i \in DOMAIN transactions : transactions[i].by # p

\* C7: when a process_claim call has returned or unwound, the lock key of its
\* round is not held by that attempt.
C7_LockReleased ==
    \A p \in Attempts : att[p].pc = "done" => locks[LockKey(att[p].round_id)] # p

\* an attempt that took the lock has unwound on an exception
C7_Witness == \E p \in Attempts : att[p].pc = "done" /\ att[p].result = "raised"

\* C8: an acquire_lock that finds the key present makes process_claim return
\* 'Claim is being processed': the attempt has read no Round and no Card, the
\* store, the lock server and the channel are as before, nothing is raised.
C8_BusyIsConflict ==
    [][\A p \in Attempts :
          (/\ att[p].pc = "acquire"
           /\ att'[p].pc # "acquire"
           /\ locks[LockKey(att[p].round_id)] # 0)
          => /\ att'[p].pc = "done"
             /\ att'[p].result = "Claim is being processed"
             /\ att'[p].round = <<>>
             /\ att'[p].card = <<>>
             /\ store' = store
             /\ events' = events
             /\ locks' = locks]_vars

\* an attempt has found the key present and returned
C8_Witness == \E p \in Attempts : att[p].result = "Claim is being processed"

\* some row of the card has all its numbers among the called ones
FullRow(card, called) ==
    \E k \in DOMAIN card.numbers :
        /\ Len(card.numbers[k]) = RowLen
        /\ \A i \in DOMAIN card.numbers[k] : card.numbers[k][i] \in Range(called)

\* the attempt has passed the checks of lines 179-195 on the rows it read
Decided(p) == att[p].pc \in {"commit", "publish", "release"} /\ att[p].result # "raised"

\* C9: the result of an attempt that has read its Round and Card is, in this
\* order: 'Invalid round or card' when either is missing; 'Round is not
\* active'; 'Card already claimed'; 'No winning line yet' when no row of the
\* card is fully called; and it goes on to settlement only when none applies.
C9_RejectionOrder ==
    \A p \in Attempts :
        Decided(p) =>
            LET r == att[p].round
                c == att[p].card
                res == att[p].result
                invalid == r = <<>> \/ c = <<>>
                inactive == ~invalid /\ r[1].status # "active"
                claimed == ~invalid /\ ~inactive /\ c[1].claimed
                no_line == ~invalid /\ ~inactive /\ ~claimed
                           /\ ~FullRow(c[1], r[1].numbers_called)
            IN /\ (res = "Invalid round or card") <=> invalid
               /\ (res = "Round is not active") <=> inactive
               /\ (res = "Card already claimed") <=> claimed
               /\ (res = "No winning line yet") <=> no_line
               /\ (res \in {"none", "Winner!", "Jackpot!"})
                      <=> ~(invalid \/ inactive \/ claimed \/ no_line)

\* a rejected attempt whose Round is not active and whose Card is claimed too
C9_Witness ==
    \E p \in Attempts :
        /\ att[p].pc = "release"
        /\ att[p].result = "Round is not active"
        /\ att[p].card # <<>>
        /\ att[p].card[1].claimed

\* C10: a process_claim call that returns one of the five failure messages has
\* changed nothing in the store and published nothing: no step it takes with
\* that result writes, the only steps of a call that write are those of a
\* settlement, and no committed row or published event comes from it.
C10_FailureFrame ==
    /\ [][\A p \in Attempts :
             att'[p] # att[p]
             => /\ att'[p].result \in Messages => store' = store /\ events' = events
                /\ (store' # store \/ events' # events)
                       => /\ att'[p].pc \in {"publish", "release"}
                          /\ att'[p].result \notin Messages]_vars
    /\ [](\A p \in Attempts :
             att[p].result \in Messages
             => /\ \A i \in DOMAIN transactions : transactions[i].by # p
                /\ \A i \in DOMAIN events : events[i].by # p
                /\ \A id \in DOMAIN rounds : rounds[id].end_time # p)

\* a claim on a card with 4 of 5 numbers called in each row has returned
C10_Witness ==
    \E p \in Attempts :
        /\ rounds[1].numbers_called = CalledNear
        /\ att[p].pc = "done"
        /\ att[p].result = "No winning line yet"

\* the rows of the card of the call whose numbers are all among the called ones
ProbeFullRows ==
    {k \in DOMAIN probe.args[1] :
         /\ Len(probe.args[1][k]) = RowLen
         /\ \A i \in DOMAIN probe.args[1][k] : probe.args[1][k][i] \in Range(probe.args[2])}

\* C11: _verify_win returns a win iff at least one row of the card has all 5 of
\* its numbers among the called numbers (4 or fewer called never wins), and the
\* line it returns is the first such row in card order (the empty list when
\* there is none).
C11_VerifyWin ==
    (probe.fn = "_verify_win" /\ probe.ret # <<>>)
    => /\ probe.ret[1].win <=> ProbeFullRows # {}
       /\ ProbeFullRows # {}
              => probe.ret[1].line =
                     probe.args[1][CHOOSE k \in ProbeFullRows : \A j \in ProbeFullRows : k <= j]
       /\ ProbeFullRows = {} => probe.ret[1].line = <<>>

\* _verify_win has returned the second row of a card whose first row has 4 of
\* its 5 numbers called and whose third row is full too
C11_Witness ==
    /\ probe.fn = "_verify_win"
    /\ probe.ret # <<>>
    /\ ProbeFullRows = {2, 3}
    /\ Marked(probe.args[1][1], Range(probe.args[2])) = RowLen - 1
    /\ probe.ret[1] = [win |-> TRUE, line |-> probe.args[1][2]]

\* a Round a claim has settled
Won(id) == rounds[id].status \in Terminal /\ rounds[id].winner_id # 0

\* C12: a settled win is a jackpot (Round.status jackpot, Transaction type
\* jackpot) iff the number of called numbers at settlement is at most the
\* configured settings.JACKPOT_THRESHOLD, for every configured value.
C12_JackpotThreshold ==
    \A env \in Environments :
        \A id \in DOMAIN rounds :
            Won(id) =>
                /\ rounds[id].status = "jackpot"
                       <=> Len(rounds[id].numbers_called) <= JACKPOT_THRESHOLD(env)
                /\ \A i \in DOMAIN transactions :
                       att[transactions[i].by].round_id = id
                       => (transactions[i].type = "jackpot"
                              <=> Len(rounds[id].numbers_called) <= JACKPOT_THRESHOLD(env))

\* C13: with exact amounts (cents, rates in percent) the winner's amount is
\* pool*winner_rate, plus pool*jackpot_rate when the win is a jackpot; the house
\* share, the winner share and the jackpot share add up to the pool; a pool of
\* 3.00 settled with 12 numbers called pays 2.40 and leaves 0.60 to the house.
C13_Payout ==
    (probe.fn = "payout" /\ probe.ret # <<>>)
    => LET pool == probe.args[1].total_pool
           n == Len(probe.args[1].numbers_called)
           ret == probe.ret[1]
       IN /\ ret.winner_amount * 100
                 = pool * WINNER_COMMISSION
                   + (IF ret.is_jackpot THEN pool * JACKPOT_COMMISSION ELSE 0)
          /\ ret.house_cut * 100 + pool * WINNER_COMMISSION + pool * JACKPOT_COMMISSION
                 = pool * 100
          /\ (pool = 300 /\ n = 12)
                 => ret.is_jackpot /\ ret.winner_amount = 240 /\ ret.house_cut = 60

\* the payout of a pool of 3.00 with 12 numbers called has been computed
C13_Witness ==
    /\ probe.fn = "payout"
    /\ probe.ret # <<>>
    /\ probe.args[1].total_pool = 300
    /\ Len(probe.args[1].numbers_called) = 12
    /\ probe.ret[1].winner_amount = 240

\* C14: after a win that is not a jackpot the jackpot share of the pool is in
\* the carried jackpot pool of the room (the jackpot_pool of the successor
\* Round); after a jackpot the share went to the winner and nothing is carried.
C14_JackpotCarried ==
    \A id \in DOMAIN rounds :
        Won(id) =>
            \A next \in DOMAIN rounds :
                SuccessorOf(next, id) =>
                    rounds[next].jackpot_pool =
                        IF rounds[id].status = "jackpot" THEN 0
                        ELSE rounds[id].jackpot_pool
                             + (rounds[id].total_pool * JACKPOT_COMMISSION) \div 100

\* C15: for every Round, numbers_called holds no value twice, every value is in
\* 1..75, its length is at most 75, and its length never decreases from one
\* state to the next, with one or more poll loops running.
C15_CalledSequence ==
    /\ [](\A id \in DOMAIN rounds :
             LET called == rounds[id].numbers_called
             IN /\ Cardinality(Range(called)) = Len(called)
                /\ Range(called) \subseteq 1..NumBalls
                /\ Len(called) <= NumBalls)
    /\ [][\A id \in DOMAIN rounds :
             Len(rounds'[id].numbers_called) >= Len(rounds[id].numbers_called)]_vars

\* C16: calling a number is an append: the commit of _call_number leaves in
\* numbers_called the sequence the call read from the Round, followed by the
\* number just called.
C16_CallAppends ==
    [][\A s \in DOMAIN sched :
          (sched[s].pc = "call_commit" /\ sched'[s].pc = "call_publish")
          => rounds'[Head(sched[s].active)].numbers_called
                 = Append(View(s, Head(sched[s].active)).numbers_called, sched[s].number)]_vars

\* the numbers of the CalledNumber rows of a Round
Logged(id) ==
    {called_numbers[i].number : i \in {j \in DOMAIN called_numbers :
                                           called_numbers[j].round_id = id}}

\* C17: the CalledNumber log mirrors numbers_called: for every Round the numbers
\* of its CalledNumber rows are the values of its numbers_called, and no number
\* is in two CalledNumber rows of the Round.
C17_LogMirrors ==
    \A id \in DOMAIN rounds :
        /\ Logged(id) = Range(rounds[id].numbers_called)
        /\ \A i, j \in DOMAIN called_numbers :
               (called_numbers[i] = called_numbers[j]
                /\ called_numbers[i].round_id = id) => i = j

\* C18: Round status only moves forward along waiting -> active -> completed or
\* jackpot: no Round leaves completed or jackpot for active or waiting, and no
\* Round goes from waiting to completed or jackpot in one step, whatever the
\* interleaving of poll loops and claim settlements.
C18_StatusForward ==
    [][\A id \in DOMAIN rounds :
          /\ rounds[id].status \in Terminal => rounds'[id].status \in Terminal
          /\ rounds[id].status = "active" => rounds'[id].status # "waiting"
          /\ rounds[id].status = "waiting" => rounds'[id].status \notin Terminal]_vars

\* C19: once a Round is completed or jackpot none of its fields changes again:
\* no step, of a claim or of a poll loop that read the Round before, writes its
\* status, winner_id, winner_amount, end_time, numbers_called or any other
\* column.
C19_TerminalFrozen ==
    [][\A id \in DOMAIN rounds :
          rounds[id].status \in Terminal => rounds'[id] = rounds[id]]_vars

\* the Rounds of a room that are waiting or active
Open(room) ==
    {id \in DOMAIN rounds : rounds[id].room_id = room
                            /\ rounds[id].status \in {"waiting", "active"}}

\* C20: in every reachable state each room has at most one Round that is waiting
\* or active.
C20_OneOpenRound ==
    \A id \in DOMAIN rounds : Cardinality(Open(rounds[id].room_id)) <= 1

\* the Rounds of a room that were created after construction
Created(room) ==
    {id \in DOMAIN rounds : rounds[id].room_id = room /\ rounds[id].created_at # InitStamp}

\* the Rounds of a room that are completed or jackpot
Ended(room) ==
    {id \in DOMAIN rounds : rounds[id].room_id = room /\ rounds[id].status \in Terminal}

\* a poll loop is between the commit of _end_round and that of _create_next_round
Terminating == \E s \in DOMAIN sched : sched[s].pc \in {"end_publish", "create_commit"}

\* C21: every Round that is completed or jackpot has exactly one successor Round
\* of its room: whenever no _end_round is under way, each room has as many
\* Rounds created after construction as it has terminal Rounds, never fewer
\* and never more.
C21_OneSuccessor ==
    ~Terminating =>
        \A id \in DOMAIN rounds :
            Cardinality(Created(rounds[id].room_id)) = Cardinality(Ended(rounds[id].room_id))

\* the poll loop s takes the step that leaves position `from` for position `to`
PollStep(s, from, to) == sched[s].pc = from /\ sched'[s].pc = to

\* the Round a poll loop is working on
Current(s) == Head(sched[s].active)

\* C22: an active Round with 75 called numbers that no claim has settled is
\* ended by the poll that reaches it: the poll calls no further number on it,
\* commits status completed with end_time set, winner_id unset and
\* winner_amount 0, then publishes round_ended, then inserts the waiting
\* successor of the same room, then publishes new_round for it, in that order.
C22_Cutoff ==
    [][\A s \in DOMAIN sched :
         /\ (/\ sched[s].pc = "process"
             /\ sched[s].active # <<>>
             /\ Len(View(s, Current(s)).numbers_called) >= NumBalls
             /\ sched'[s] # sched[s]
             /\ sched'[s].pc # "sleep")
            => /\ sched'[s].pc = "end_commit"
               /\ store' = store
         /\ PollStep(s, "process", "call_commit")
            => Len(View(s, Current(s)).numbers_called) < NumBalls
         /\ (PollStep(s, "end_commit", "end_publish") /\ rounds[Current(s)].status = "active")
            => /\ rounds'[Current(s)].status = "completed"
               /\ rounds'[Current(s)].end_time # 0
               /\ rounds'[Current(s)].winner_id = 0
               /\ rounds'[Current(s)].winner_amount = 0
               /\ rounds'[Current(s)].numbers_called = rounds[Current(s)].numbers_called
               /\ Len(rounds') = Len(rounds)
               /\ events' = events
         /\ sched[s].pc = "end_commit" => sched'[s].pc \in {"end_commit", "end_publish", "sleep"}
         /\ sched[s].pc = "end_publish" /\ sched'[s].pc \notin {"end_publish", "sleep"}
            => /\ sched'[s].pc = "create_commit"
               /\ events' = Append(events, [type |-> "round_ended", round_id |-> Current(s)])
               /\ store' = store
         /\ sched[s].pc = "create_commit" /\ sched'[s].pc \notin {"create_commit", "sleep"}
            => /\ sched'[s].pc = "create_publish"
               /\ Len(rounds') = Len(rounds) + 1
               /\ rounds'[Len(rounds')].status = "waiting"
               /\ rounds'[Len(rounds')].room_id = rounds[Current(s)].room_id
               /\ sched'[s].new_id = Len(rounds')
               /\ events' = events
         /\ sched[s].pc = "create_publish" /\ sched'[s].pc \notin {"create_publish", "sleep"}
            => /\ sched'[s].pc = "process"
               /\ sched'[s].active = Tail(sched[s].active)
               /\ events' = Append(events, [type |-> "new_round", round_id |-> sched[s].new_id])
               /\ store' = store]_vars

\* Round 1 ended by the cutoff: completed without a winner, round_ended
\* published, then new_round for a waiting successor of its room
C22_Witness ==
    /\ Len(rounds[1].numbers_called) = NumBalls
    /\ rounds[1].status = "completed"
    /\ rounds[1].end_time # 0
    /\ rounds[1].winner_id = 0
    /\ rounds[1].winner_amount = 0
    /\ \E i, j \in DOMAIN events :
           /\ i < j
           /\ events[i] = [type |-> "round_ended", round_id |-> 1]
           /\ events[j].type = "new_round"
           /\ events[j].round_id \in DOMAIN rounds
           /\ rounds[events[j].round_id].room_id = rounds[1].room_id
           /\ rounds[events[j].round_id].created_at # InitStamp

\* the poll of s is inside the step of one Round: in _process_round for an
\* active Round or in _start_round for a waiting one
InRoundStep(s) ==
    \/ sched[s].pc \in {"process", "call_commit", "call_publish", "end_commit",
                        "end_publish", "create_commit", "create_publish"}
       /\ sched[s].active # <<>>
    \/ sched[s].pc \in {"start", "start_publish"} /\ sched[s].waiting # <<>>

\* the Rounds the poll of s has still to step after the one it is in: the rest
\* of its active list and the waiting Rounds, loaded or still to be loaded
Pending(s) ==
    IF sched[s].pc \in {"start", "start_publish"}
    THEN Range(Tail(sched[s].waiting))
    ELSE Range(Tail(sched[s].active)) \cup IdsWithStatus("waiting")

\* C23: a failure while one Round is processed does not abort the poll for the
\* other Rounds: a poll never ends from inside the step of one Round while
\* other Rounds of that poll are still to be called, ended or started.
C23_FailureIsolated ==
    [][\A s \in DOMAIN sched :
         (InRoundStep(s) /\ sched'[s].pc = "sleep") => Pending(s) = {}]_vars

\* no poll is under way
BetweenPolls == \A s \in DOMAIN sched : sched[s].pc \in {"sleep", "exited"}

\* the first half of C24: an exception of a poll ends in the sleep of line 35
\* and never in the exit of the loop, and while the flag is set the sleeping
\* loop polls again
C24_LoopContinues ==
    /\ [][\A s \in Schedulers :
            (sched[s].pc \notin {"sleep", "exited"} /\ sched'[s].pc # sched[s].pc)
            => sched'[s].pc # "exited"]_vars
    /\ \A s \in Schedulers :
           (sched[s].pc = "sleep" /\ running[s]) ~> (sched[s].pc = "process" \/ ~running[s])

\* the cutoff step of Round 1 failed after its commit: the Round is completed
\* without a winner, its round_ended was never published, no poll is under way
EndFailed ==
    /\ rounds[1].status = "completed"
    /\ rounds[1].winner_id = 0
    /\ \A i \in DOMAIN events : events[i] # [type |-> "round_ended", round_id |-> 1]
    /\ BetweenPolls

\* a poll has Round 1 among the Rounds it processes
Retried == \E s \in Schedulers : sched[s].pc \notin {"sleep", "exited"} /\ 1 \in Range(sched[s].active)

\* C24: a failure raised during a poll never stops the scheduling loop: while
\* the worker is running the loop polls again after any exception, and the
\* Round whose step failed (here the cutoff step of Round 1, failed at the
\* publish of round_ended) is processed again by a later poll.
C24_FailureRetried ==
    /\ C24_LoopContinues
    /\ \A s \in Schedulers : (EndFailed /\ running[s]) ~> (Retried \/ ~running[s])

Past(v, k) ==
    \/ listeners[v].pc \in {"dead", "done"}
    \/ listeners[v].pc = "listen" /\ listeners[v].cursor > k
    \/ listeners[v].pc = "send" /\ listeners[v].cursor > k + 1

\* the relay has nothing left to do with message k
Relayed(k) ==
    \A v \in DOMAIN listeners : sockets[v].room_id = Channel(events[k]) => Past(v, k)

\* C26: on each message of a room channel the relay sends the message to every
\* socket registered for the room, also when the send to another socket fails
\* and that socket is pruned: once the relay is done with a message, every
\* socket that was subscribed to the room before the message was published, is
\* still registered and whose client is there has been sent the message.
C26_Broadcast ==
    \A k \in DOMAIN events : \A w \in DOMAIN listeners :
        (/\ Relayed(k)
         /\ sockets[w].room_id = Channel(events[k])
         /\ listeners[w].since <= k
         /\ w \in active_connections[sockets[w].room_id]
         /\ sockets[w].alive)
        => \E i \in DOMAIN sockets[w].sent : sockets[w].sent[i] = events[k]

\* C27: a claim message of a client is forwarded to the claim coordinator (a
\* process_claim attempt for the card_id and the user of the socket begins) and
\* acknowledged to the user, a buy_card message is forwarded to the purchase
\* endpoint (a buy_card request for the round_id and the user begins), and the
\* relay changes no Round, Card, balance or ledger row.
C27_Forwarded ==
    [][\A ws \in DOMAIN sockets :
         (sockets[ws].pc = "handle" /\ sockets'[ws].pc = "receive")
         => /\ store' = store
            /\ sockets[ws].data.type = "claim"
               => /\ \E p \in Attempts :
                        /\ att[p].pc = "idle" /\ att'[p].pc # "idle"
                        /\ att'[p].card_id = sockets[ws].data.id
                        /\ att'[p].user_id = sockets[ws].user_id
                  /\ \E t \in DOMAIN sockets :
                        /\ sockets[t].user_id = sockets[ws].user_id
                        /\ sockets'[t].sent = Append(sockets[t].sent,
                                                     [type |-> "claim_status",
                                                      status |-> "processing"])
            /\ sockets[ws].data.type = "buy_card"
               => /\ Len(buys') = Len(buys) + 1
                  /\ buys'[Len(buys')].round_id = sockets[ws].data.id
                  /\ buys'[Len(buys')].user_id = sockets[ws].user_id]_vars

\* the winner events published by request p
WinnerEvents(p) == {i \in DOMAIN events : events[i].type = "winner" /\ events[i].by = p}

\* the ledger rows committed by request p
Settlements(p) == {i \in DOMAIN transactions : transactions[i].by = p}

CycleRounds == 1..2

\* C30: a poll starts every waiting Round it sees, whatever the Round holds:
\* it loads all waiting Rounds, commits status active and start_time for each,
\* publishes round_started for it, and ends only when none is left; with the
\* loop's steps taken fairly and no failure, a waiting Round becomes active
\* and an active Round (with the calls it still needs within those the
\* behaviour makes) becomes completed or jackpot.
C30_RoundsProgress ==
    /\ [][\A s \in Schedulers :
            /\ PollStep(s, "process", "start")
               => Range(sched'[s].waiting) = IdsWithStatus("waiting")
            /\ (sched[s].pc = "start" /\ sched[s].waiting # <<>> /\ sched'[s] # sched[s])
               => /\ sched'[s].pc = "start_publish"
                  /\ rounds'[Head(sched[s].waiting)].status = "active"
                  /\ rounds'[Head(sched[s].waiting)].start_time # 0
            /\ (sched[s].pc = "start_publish" /\ sched'[s] # sched[s])
               => /\ events' = Append(events, [type |-> "round_started",
                                               round_id |-> Head(sched[s].waiting)])
                  /\ sched'[s].waiting = Tail(sched[s].waiting)
            /\ (sched[s].pc = "start" /\ sched'[s].pc = "sleep") => sched[s].waiting = <<>>]_vars
    /\ \A id \in CycleRounds :
           (id \in DOMAIN rounds /\ rounds[id].status = "waiting")
           ~> (id \in DOMAIN rounds /\ rounds[id].status = "active")
    /\ \A id \in CycleRounds :
           (/\ id \in DOMAIN rounds
            /\ rounds[id].status = "active"
            /\ NumBalls - Len(rounds[id].numbers_called) <= calls)
           ~> (id \in DOMAIN rounds /\ rounds[id].status \in Terminal)

\* Round 1 has been called to the cutoff and ended, and its successor, a Round
\* without any card, has been started
C30_Witness ==
    /\ rounds[1].status = "completed"
    /\ Len(rounds[1].numbers_called) = NumBalls
    /\ Len(rounds) = 2
    /\ rounds[2].status = "active"
    /\ rounds[2].total_pool = 0
    /\ rounds[2].start_time # 0
    /\ \E i \in DOMAIN events : events[i] = [type |-> "round_started", round_id |-> 2]

\* the time the interval of a round is counted from: its last call, or its
\* start when no number was called yet
CountedFrom(id) == IF HasLastCall(id) THEN LastCalledAt(id) ELSE clock.start_time[id]

\* C31: a poll of an active Round with fewer than 75 calls goes on to call a
\* number only when the interval has elapsed since the Round's last call, or
\* since its start when no number was called yet; otherwise the step leaves the
\* store and the channel as they are.
C31_CallInterval ==
    [][\A s \in Schedulers :
          (sched[s].pc = "process" /\ sched[s].active # <<>>
             /\ Len(View(s, Head(sched[s].active)).numbers_called) < NumBalls)
          => /\ sched'[s].pc = "call_commit"
                  => clock.now - CountedFrom(Head(sched[s].active)) >= NUMBER_CALL_INTERVAL
             /\ clock.now - CountedFrom(Head(sched[s].active)) < NUMBER_CALL_INTERVAL
                  => /\ sched'[s].pc # "call_commit"
                     /\ UNCHANGED <<store, events>>]_vars

\* the part of C31 that counts from the last call: a Round with a CalledNumber
\* is called only when the interval has elapsed since the latest one
C31_SinceLastCall ==
    [][\A s \in Schedulers :
          (sched[s].pc = "process" /\ sched'[s].pc = "call_commit"
             /\ HasLastCall(Head(sched[s].active)))
          => clock.now - LastCalledAt(Head(sched[s].active)) >= NUMBER_CALL_INTERVAL]_vars

\* the number_called events of a Round
NumberEvents(id) ==
    {k \in DOMAIN events : events[k].type = "number_called" /\ events[k].round_id = id}

\* C32: a number call draws a number of 1..75 the Round has not called, commits
\* the CalledNumber row and the new numbers_called in one commit, and then
\* publishes one number_called event with the drawn number and the sequence
\* this call committed, which ends with that number; every number_called
\* event is for a number that has a CalledNumber row.
C32_CallThenPublish ==
    /\ [][\A s \in DOMAIN sched :
             LET id == Head(sched[s].active) IN
             /\ (sched[s].pc = "call_commit" /\ sched'[s].pc = "call_publish")
                => /\ sched[s].number \in (1..NumBalls) \ Range(View(s, id).numbers_called)
                   /\ called_numbers' = Append(called_numbers, CalledNumber(id, sched[s].number))
                   /\ rounds'[id].numbers_called[Len(rounds'[id].numbers_called)]
                          = sched[s].number
                   /\ events' = events
             /\ (sched[s].pc = "call_publish" /\ sched'[s].pc # "call_publish"
                    /\ events' # events)
                => /\ Len(events') = Len(events) + 1
                   /\ LET e == events'[Len(events')]
                      IN /\ e.type = "number_called"
                         /\ e.round_id = id
                         /\ e.number = sched[s].number
                         /\ e.called_numbers # <<>>
                         /\ e.called_numbers[Len(e.called_numbers)] = e.number
                   /\ UNCHANGED store]_vars
    /\ [](\A id \in DOMAIN rounds : \A k \in NumberEvents(id) :
              events[k].number \in Logged(id))

\* C33: a connect or a disconnect that falls into an await of a broadcast over
\* the sockets of its room aborts nothing: no broadcast_to_room is left by an
\* exception before it has gone over the sockets of the room, so no listener
\* task is ended by one.
C33_BroadcastNotAborted ==
    \A ws \in DOMAIN listeners : listeners[ws].pc # "dead"

\* C34: process_claim settles a Round only with a Card of that Round: the
\* card of a claim that succeeded was bought for the Round the claim names.
C34_CardOfRound ==
    \A p \in Attempts :
        Succeeded(p) => cards[att[p].card_id].round_id = att[p].round_id

\* the loops of worker w that are in a poll
Polling(w) ==
    {s \in DOMAIN sched : Owner(s) = w /\ sched[s].pc \notin {"none", "sleep", "exited"}}

\* C35: whatever calls of start() and stop() a RoundWorker has got, no two of
\* its _round_loop tasks are in a poll at the same time.
C35_OneLoop ==
    \A w \in DOMAIN running : Cardinality(Polling(w)) <= 1

\* how many times message k was sent on socket w
Deliveries(w, k) == Cardinality({i \in DOMAIN sockets[w].sent : sockets[w].sent[i] = events[k]})

\* C36: a message published once on a room channel is sent at most once on
\* each socket, however many sockets of the room the process holds.
C36_DeliveredOnce ==
    \A w \in DOMAIN sockets : \A k \in DOMAIN events : Deliveries(w, k) <= 1

\* C37: a room is never left without a current Round: whenever no _end_round
\* is under way, every room that has a terminal Round has a Round that is
\* waiting or active, also after a poll whose publish of round_ended raised.
C37_RoomHasRound ==
    ~Terminating =>
        \A id \in DOMAIN rounds :
            rounds[id].status \in Terminal => Open(rounds[id].room_id) # {}

\* a new_round event carries the id of Round id
Announced(id) ==
    \E k \in DOMAIN events : events[k].type = "new_round" /\ events[k].round_id = id

\* C38: every creation of a successor Round is announced by a new_round event
\* with the id of the new Round: _create_next_round publishes it after its
\* commit, and once a claim that settled a Round has returned success, the
\* successor its commit inserted has been announced.
C38_SuccessorAnnounced ==
    /\ [][\A s \in DOMAIN sched :
             PollStep(s, "create_publish", "process")
             => /\ events' = Append(events, [type |-> "new_round", round_id |-> sched[s].new_id])
                /\ rounds[sched[s].new_id].status = "waiting"]_vars
    /\ [](\A p \in Attempts :
              Succeeded(p) => \A id \in DOMAIN rounds : rounds[id].created_at = p => Announced(id))

\* the sockets a user has connected with
SocketsOf(user_id) == {w \in DOMAIN sockets : sockets[w].user_id = user_id}

\* the socket of the user's latest connect, while its connection is served and
\* its client is there
Latest(user_id, w) ==
    /\ w \in SocketsOf(user_id)
    /\ \A v \in SocketsOf(user_id) : v <= w
    /\ sockets[w].pc \in {"subscribe", "receive", "handle"}
    /\ sockets[w].alive

\* C39: after a user has connected again, the disconnect of the old socket
\* removes only the old socket: user_connections maps the user to the socket
\* of the latest connect as long as that connection lasts, so send_to_user
\* reaches it.
C39_ReconnectKept ==
    \A user_id \in UserIds : \A w \in DOMAIN sockets :
        Latest(user_id, w)
        => user_id \in DOMAIN user_connections /\ user_connections[user_id] = w

\* the sum of the amounts of the first k Transactions of a user
RECURSIVE LedgerSum(_, _)
LedgerSum(user_id, k) ==
    IF k = 0 THEN 0
    ELSE LedgerSum(user_id, k - 1)
         + (IF transactions[k].user_id = user_id THEN transactions[k].amount ELSE 0)

\* C40: in every reachable state the wallet_balance of each user is the
\* balance the user began with plus the sum of the amounts of the user's
\* committed Transactions, also when a settlement credit, a purchase and a
\* deposit of the same user run in different sessions at the same time.
C40_Ledger ==
    \A user_id \in UserIds :
        users[user_id] = Funds + LedgerSum(user_id, Len(transactions))

====
